---- MODULE Spec2Model ----
(***************************************************************************)
(* A model of the parrotbebop ground controller: the ARNetworkAL codec,    *)
(* the per-buffer sequencer (udpPacketCreator), the frame dispatcher       *)
(* (handleReadPackages), the input router (handleInputAction), the PCMD    *)
(* scheduler (PcmdPacketScheduler), the waypoint executor                  *)
(* (startMoveToExecutor with the moveToBuffer), discovery (Discover) and   *)
(* the supervisor's loop (start).                                          *)
(*                                                                         *)
(* Bytes are naturals in 0..255 and a datagram is a sequence of bytes.     *)
(* Every goroutine is a process with a program counter; an unbuffered      *)
(* channel operation is a rendezvous of the sender's and the receiver's    *)
(* step.  A panic in any goroutine ends the process: crashed.              *)
(***************************************************************************)
EXTENDS Integers, Sequences, FiniteSets, TLC

VARIABLES
    sequenceNR,   \* udpPacketCreator.sequenceNR: Go map[int]uint8 (absent key reads 0)
    ctxDone,      \* the session context has been cancelled
    crashed,      \* a goroutine panicked: the process is gone
    supPc,        \* Drone.start: "new", "discover", "listen", "dial", "wait" at its
                  \* select, "sleep" after cancel() on a reconnect, "done" returned
    rdPc,         \* readNetworkUDPPacketsD2C: "select", "read", "send", "signal", "exit"
                  \* (every goroutine: "none" before Drone.start has started it)
    rdPacket,     \* the networkUDPPacket the reader is sending
    rdArmed,      \* SetReadDeadline has been called
    nRead,        \* datagrams/read results delivered so far (bounded by MaxPackets)
    hrPc,         \* handleReadPackages: "select", "recv", "frame", "sendPong", "sendAck", "cmd", "exit"
    hrPacket,     \* its udpPacket
    hrLastFrame,  \* its lastFrame
    hrFrame,      \* its frameARNetworkAL
    hrP,          \* the reply it is sending on chSendingUDPPacket
    wrPc,         \* writeNetworkUDPPacketsC2D: "select", "exit"
    obs,          \* observer: the frame the dispatcher handles and what it did for it
    replySeqs,    \* observer: per reply buffer, the sequence bytes of the last two replies
    irPc,         \* handleInputAction: "select", "send", "sendPcmd", "exit"
    irP,          \* the packet it is sending
    pcmd,         \* Drone.pcmd
    nInputs,      \* input actions delivered so far (bounded by MaxInputs)
    chPcmdPacketScheduler, \* the buffered channel to the scheduler
    scPc,         \* PcmdPacketScheduler: "wait", "poll", "send", "exit"
    scP,          \* the packet it is forwarding
    cmdSeqs,      \* observer: the sequence bytes of the last two frames encodeCmd made
    fwdSinceTick, \* observer: packets the scheduler forwarded since its last tick
    pendingAtTick \* observer: packets pending when the last tick polled the channel

sharedVars == <<sequenceNR, ctxDone, crashed, supPc, wrPc>>
readerVars == <<rdPc, rdPacket, rdArmed, nRead>>
hrVars     == <<hrPc, hrPacket, hrLastFrame, hrFrame, hrP>>
dispObs    == <<obs, replySeqs>>
dispVars   == <<readerVars, hrVars, dispObs>>
irVars     == <<irPc, irP, pcmd, nInputs>>
schedVars  == <<chPcmdPacketScheduler, scPc, scP, fwdSinceTick, pendingAtTick>>
inputVars  == <<irVars, schedVars>>

\* the moveTo buffer, its receiver and its puller goroutine
VARIABLES
    nWaypoints,      \* waypoints handed to chNewWayPointIn so far
    waypoints,       \* moveToBuffer.waypoints
    accepted,        \* observer: the waypoints pushed, in order
    rcvPc,           \* startWayPointReceiver: "recv", "push"
    rcvWp,           \* its wp
    rcvSnap,         \* the s.waypoints its append has read
    pullPc,          \* the puller goroutine: "pull", "write", "send"
    pullSnap,        \* the s.waypoints pullWayPointNext has read
    pullWp           \* its wp

\* startMoveToExecutor and the goroutines it spawns
VARIABLES
    exPc,            \* the outer loop: "waitExecute", "wgWait", "cancel"
    gen,             \* iterations of the outer loop begun
    wg,              \* the WaitGroup counter of each iteration
    inPc,            \* each inner goroutine: "none", "select", "sendCancel",
                     \* "sendMoveTo", "await", "exit"
    inCtxDone,       \* cancel() of each iteration's ctx has been called
    inP,             \* each inner goroutine's p
    inWp,            \* each inner goroutine's wp
    nCancels,        \* Cancel signals received so far
    moveToLog,       \* observer: the waypoints of the PilotingmoveTo frames sent
    nCancelSent,     \* observer: PilotingCancelMoveTo frames sent
    idleAfterCancel  \* observer: a Cancel has been handled, no Execute since

wpVars == <<nWaypoints, waypoints, accepted, rcvPc, rcvWp, rcvSnap, pullPc, pullSnap, pullWp>>
exVars == <<exPc, gen, wg, inPc, inCtxDone, inP, inWp, nCancels>>
exObs == <<moveToLog, nCancelSent, idleAfterCancel>>
execVars == <<wpVars, exVars, exObs>>

\* the writer's output, the decode walk of one packet, and Drone.start
VARIABLES
    written,         \* observer: per outbound buffer, the sequence byte of the
                     \* frame the writer wrote last
    wkPc,            \* the decode walk: "idle", "walk", "done", "panic"
    wkPacket,        \* the networkUDPPacket being walked
    wkFrames,        \* observer: the frames the packet was built from
    wkOut,           \* observer: the frames decode has returned, in order
    session,         \* iterations of the loop of Drone.start begun
    attempt,         \* i of the discovery loop
    discErr,         \* err of the last d.Discover(): "none", "nil", "err"
    portC2D,         \* Drone.portC2D
    connUDPRead,     \* Drone.connUDPRead: "nil", "open"
    connUDPWrite,    \* Drone.connUDPWrite: "nil", "open"
    spawned,         \* observer: the goroutines each iteration has started
    exited,          \* log.Fatal has ended the process
    discLog          \* observer: the last call of Discover

walkVars == <<wkPc, wkPacket, wkFrames, wkOut>>
startVars == <<session, attempt, discErr, portC2D, connUDPRead, connUDPWrite, spawned,
               exited, discLog>>

\* the input router's current action
VARIABLES
    irAction         \* handleInputAction: the kind of its action: "none" yet,
                     \* "command" or "axis" for an action its switch has a
                     \* case for, "otherCommand", "otherAxis" or "unlisted"
                     \* for one it has no case for

\* u.sequenceNR[buffer]++ of encodeCmd taken as the load and the store it is
VARIABLES
    irEnc,           \* handleInputAction inside encodeCmd: the command and the
                     \* counter value it has loaded
    inEnc            \* the same of the inner goroutine of each iteration of
                     \* startMoveToExecutor

encVars == <<irEnc, inEnc>>

\* the operator's quit
VARIABLES
    quit             \* readKeyBoardEvent's d.chQuit <- struct{}{}: "none" yet,
                     \* "pending" while the send waits for a receiver,
                     \* "accepted" once the select of Drone.start has taken it,
                     \* "lost" once the dialer of Discover has taken it

\* what the input router's receive leaves alone of the variables below
\* the reader of the session before the current one
VARIABLES
    prevRd           \* readNetworkUDPPacketsD2C started in the previous run of
                     \* the loop of Drone.start: where it is (pc), whether
                     \* its read deadline is set (armed), and the socket it
                     \* was started on (sock: "none", "nil", "open", "closed")

\* the waypoint executor of the session before the current one
VARIABLES
    prevEx           \* startMoveToExecutor started in the previous run of the
                     \* loop of Drone.Start: where it is (pc), where the inner
                     \* goroutine of its iteration is (inPc), and its
                     \* WaitGroup counter (wg)

lateRest == <<encVars, quit, prevRd, prevEx>>

lateVars == <<irAction, lateRest>>

vars == <<sharedVars, dispVars, inputVars, cmdSeqs, execVars, written, walkVars, startVars,
          lateVars>>

----------------------------------------------------------------------------
(* Bounds of the model *)

\* datagrams (or read errors) the reader delivers in one run
MaxPackets == 1
\* frames in one inbound datagram
MaxFrames == 2
\* input actions delivered to the input router in one run
MaxInputs == 4
\* waypoints handed to the moveTo buffer in one run
MaxWaypoints == 2
\* Execute signals in one run
MaxGen == 2
\* Cancel signals in one run
MaxCancels == 2
\* Gaz actions of one direction a warm session has already handled
WarmGazIncs == 99
\* commands a warm session has already encoded on buffer 10 when a run starts
WarmCmds == 253

----------------------------------------------------------------------------
(* Program constants *)

\* p := make([]byte, 16384)
ReadBufLen == 16384
\* const headerSize = 7
headerSize == 7
\* const buffer int = 10 of encodeCmd
cmdBuffer == 10
\* make(chan networkUDPPacket, 100)
PcmdChanCap == 100

Byte == 0..255

----------------------------------------------------------------------------
(* Little-endian conversion *)

\* binary.Write(&buf, binary.LittleEndian, uint32(n))
LE32(n) ==
    << n % 256, (n \div 256) % 256, (n \div 65536) % 256, (n \div 16777216) % 256 >>

\* binary.Write(&buf, binary.LittleEndian, uint16(n))
LE16(n) ==
    << n % 256, (n \div 256) % 256 >>

RECURSIVE ConvLittleEndianSliceToNumeric(_)
\* the number a little-endian byte slice holds
ConvLittleEndianSliceToNumeric(bs) ==
    IF bs = << >> THEN 0
    ELSE Head(bs) + 256 * ConvLittleEndianSliceToNumeric(Tail(bs))

----------------------------------------------------------------------------
(* Commands and their arguments *)

\* Command{Project, Class, Cmd} values of the ardrone3 Piloting class
PilotingTakeOff      == << 1, 0, 1 >>
PilotingPCMD         == << 1, 0, 2 >>
PilotingLanding      == << 1, 0, 3 >>
PilotingEmergency    == << 1, 0, 4 >>
PilotingmoveTo       == << 1, 0, 10 >>
PilotingCancelMoveTo == << 1, 0, 11 >>

\* convertCMDToBytes: the fields in order, little-endian: u8, u8, u16
convertCMDToBytes(c) ==
    << c[1], c[2] >> \o LE16(c[3])

\* int8(x): two's complement wrap of an 8-bit signed value
Int8(x) ==
    ((x + 128) % 256) - 128

\* the byte of an int8
U8(x) ==
    (x + 256) % 256

\* Ardrone3PilotingPCMDArguments.Encode: flag u8, roll, pitch, yaw, gaz i8,
\* timestampAndSeqNum u32, little-endian
EncodePCMD(a) ==
    << a.Flag % 256, U8(a.Roll), U8(a.Pitch), U8(a.Yaw), U8(a.Gaz) >> \o LE32(a.TimestampAndSeqNum)

\* the zero Ardrone3PilotingPCMDArguments
ZeroPCMD ==
    [Flag |-> 0, Roll |-> 0, Pitch |-> 0, Yaw |-> 0, Gaz |-> 0, TimestampAndSeqNum |-> 0]

\* a variant of CheckLimitPcmdField that returns its argument
CheckLimitPcmdFieldNone(number) ==
    number

\* CheckLimitPcmdField
CheckLimitPcmdField(number) ==
    IF number > 100 THEN 100
    ELSE IF number < -100 THEN -100
    ELSE number

\* floor(log2 a) for a >= 1
RECURSIVE Log2(_)
Log2(a) ==
    IF a < 2 THEN 0 ELSE 1 + Log2(a \div 2)

\* 2^e
RECURSIVE Pow2(_)
Pow2(e) ==
    IF e = 0 THEN 1 ELSE 2 * Pow2(e - 1)

\* the eight little-endian bytes of the IEEE 754 double of an integer n,
\* |n| < 2^16: sign, 11-bit exponent 1023 + e, 52-bit fraction
F64LE(n) ==
    IF n = 0 THEN << 0, 0, 0, 0, 0, 0, 0, 0 >>
    ELSE LET a     == IF n < 0 THEN -n ELSE n
             e     == Log2(a)
             top16 == (a - Pow2(e)) * Pow2(16 - e)
             E     == 1023 + e
             sign  == IF n < 0 THEN 1 ELSE 0
         IN  << 0, 0, 0, 0, (top16 % 16) * 16, (top16 \div 16) % 256,
                (E % 16) * 16 + (top16 \div 4096), sign * 128 + (E \div 16) >>

\* Ardrone3PilotingmoveToArguments{Latitude, Longitude, Altitude}.Encode
EncodeMoveTo(wp) ==
    F64LE(wp.latitude) \o F64LE(wp.longitude) \o F64LE(wp.altitude)

\* gpsLatLonAlt{}
ZeroWp ==
    [latitude |-> 0, longitude |-> 0, altitude |-> 0]

----------------------------------------------------------------------------
(* The sequencer: a Go map[int]uint8 *)

\* make(map[int]uint8)
newUdpPacketCreator == << >>

\* m[k] of a Go map: the zero value when the key is absent
MapGet(m, k) ==
    IF k \in DOMAIN m THEN m[k] ELSE 0

\* m[k]++ on a uint8 value: wraps from 255 to 0, creates the key
MapInc(m, k) ==
    [x \in (DOMAIN m) \cup {k} |-> IF x = k THEN (MapGet(m, k) + 1) % 256 ELSE m[x]]

\* m[k] = v on a Go map: creates the key
MapSet(m, k, v) ==
    [x \in (DOMAIN m) \cup {k} |-> IF x = k THEN v ELSE m[x]]

\* no encodeCmd call is under way
NoEnc == [cmd |-> << >>, v |-> -1]

----------------------------------------------------------------------------
(* Encoders of udpPacketCreator.  Each yields the datagram and the map     *)
(* after the call.                                                         *)

\* a variant of encodePong that echoes the first payload byte only
encodePongFirstByte(m, frame) ==
    LET m1 == MapInc(m, frame.targetBufferID)
        ptargetBufferID == frame.targetBufferID % 256
        psequenceNR == MapGet(m1, ptargetBufferID)
        m2 == MapInc(m1, ptargetBufferID)
    IN  [ data |-> << 2, ptargetBufferID, psequenceNR >> \o << 8, 0, 0, 0 >>
                   \o SubSeq(frame.dataARNetwork, 1, 1),
          seq  |-> m2 ]

\* encodePong: the counter is incremented before and after it is read
encodePong(m, frame) ==
    LET m1 == MapInc(m, frame.targetBufferID)
        ptargetBufferID == frame.targetBufferID % 256
        psequenceNR == MapGet(m1, ptargetBufferID)
        m2 == MapInc(m1, ptargetBufferID)
    IN  [ data |-> << 2, ptargetBufferID, psequenceNR >> \o << 8, 0, 0, 0 >> \o frame.dataARNetwork,
          seq  |-> m2 ]

\* encodeAck: the sequence byte is the inbound sequence number; the target
\* buffer is uint8(targetBufferID + 128)
encodeAck(m, targetBufferID, seqNR) ==
    LET ptargetBufferID == (targetBufferID + 128) % 256
    IN  [ data |-> << 1, ptargetBufferID, seqNR >> \o << 8, 0, 0, 0 >> \o << seqNR >>,
          seq  |-> MapInc(m, ptargetBufferID) ]

\* a variant of encodeCmd that increments the counter after the read as well
encodeCmdTwice(m, c, adata) ==
    LET m1 == MapInc(m, cmdBuffer)
        psequenceNR == MapGet(m1, cmdBuffer)
        pdata == convertCMDToBytes(c)
        size == Len(pdata) + Len(adata) + headerSize
    IN  [ data |-> << 2, cmdBuffer % 256, psequenceNR >> \o LE32(size) \o pdata \o adata,
          seq  |-> MapInc(m1, cmdBuffer) ]

\* the encodeCmd of the source: buffer 10 and dataType 2 for every command
encodeCmd(m, c, adata) ==
    LET m1 == MapInc(m, cmdBuffer)
        psequenceNR == MapGet(m1, cmdBuffer)
        pdata == convertCMDToBytes(c)
        size == Len(pdata) + Len(adata) + headerSize
    IN  [ data |-> << 2, cmdBuffer % 256, psequenceNR >> \o LE32(size) \o pdata \o adata,
          seq  |-> m1 ]

----------------------------------------------------------------------------
(* Decoders *)

\* packet.data[i] of the 16384-byte read buffer: bytes past the datagram are 0
ByteAt(pkt, i) ==
    IF i < Len(pkt.data) THEN pkt.data[i + 1] ELSE 0

NoFrame == [dataType |-> 0, targetBufferID |-> 0, sequenceNR |-> 0, size |-> 0,
            dataARNetwork |-> << >>]

\* a variant of networkUDPPacket.decode that sees a further frame only when
\* more than a 7-byte header follows
PacketDecodeStrict(pkt) ==
    LET pos  == pkt.framePos
        size == ConvLittleEndianSliceToNumeric(
                    << ByteAt(pkt, pos + 3), ByteAt(pkt, pos + 4),
                       ByteAt(pkt, pos + 5), ByteAt(pkt, pos + 6) >>)
        more == pos + size + headerSize < pkt.size
    IN  IF pos + headerSize > ReadBufLen \/ size < headerSize \/ pos + size > ReadBufLen
        THEN [panic |-> TRUE, frame |-> NoFrame, eof |-> TRUE, framePos |-> pos]
        ELSE [panic |-> FALSE,
              frame |-> [dataType       |-> ByteAt(pkt, pos),
                         targetBufferID |-> ByteAt(pkt, pos + 1),
                         sequenceNR     |-> ByteAt(pkt, pos + 2),
                         size           |-> size,
                         dataARNetwork  |-> [i \in 1..(size - headerSize) |->
                                                ByteAt(pkt, pos + headerSize + i - 1)]],
              eof |-> ~more,
              framePos |-> IF more THEN pos + size ELSE pos]

\* networkUDPPacket.decode: the frame at framePos, io.EOF unless a further
\* 7-byte header fits in packet.size, and the advanced framePos.  The slice
\* expression data[framePos+7 : framePos+size] panics when size < 7 or when
\* it runs past the read buffer.
PacketDecode(pkt) ==
    LET pos  == pkt.framePos
        size == ConvLittleEndianSliceToNumeric(
                    << ByteAt(pkt, pos + 3), ByteAt(pkt, pos + 4),
                       ByteAt(pkt, pos + 5), ByteAt(pkt, pos + 6) >>)
        more == pos + size + headerSize <= pkt.size
    IN  IF pos + headerSize > ReadBufLen \/ size < headerSize \/ pos + size > ReadBufLen
        THEN [panic |-> TRUE, frame |-> NoFrame, eof |-> TRUE, framePos |-> pos]
        ELSE [panic |-> FALSE,
              frame |-> [dataType       |-> ByteAt(pkt, pos),
                         targetBufferID |-> ByteAt(pkt, pos + 1),
                         sequenceNR     |-> ByteAt(pkt, pos + 2),
                         size           |-> size,
                         dataARNetwork  |-> [i \in 1..(size - headerSize) |->
                                                ByteAt(pkt, pos + headerSize + i - 1)]],
              eof |-> ~more,
              framePos |-> IF more THEN pos + size ELSE pos]

\* CommandMap: the registry of known (project, class, command) descriptors
CommandMap ==
    { << 1, 4, 6 >>, << 1, 4, 9 >>, << 1, 25, 0 >>, << 1, 4, 4 >>, << 1, 4, 12 >> }

\* protocolARNetworkAL.decode: project, class, command (u16 LE) and the
\* arguments dataARNetwork[4:size-7]; indexing panics on a payload shorter
\* than 4 bytes.  err is always nil.
FrameDecode(frame) ==
    LET pl == frame.dataARNetwork
    IN  IF Len(pl) < 4
        THEN [panic |-> TRUE, cmd |-> << 0, 0, 0 >>, known |-> FALSE, arguments |-> << >>]
        ELSE LET c == << pl[1], pl[2], ConvLittleEndianSliceToNumeric(<< pl[3], pl[4] >>) >>
             IN  [panic |-> FALSE, cmd |-> c, known |-> c \in CommandMap,
                  arguments |-> SubSeq(pl, 5, Len(pl))]

----------------------------------------------------------------------------
(* Inbound traffic: what the drone (or anyone) may send to the D2C port *)

\* one ARNetworkAL frame on the wire: dataType, buffer, seq, u32 LE size, data
FrameBytes(dataType, buffer, seqNR, payload) ==
    << dataType, buffer, seqNR >> \o LE32(headerSize + Len(payload)) \o payload

PingFrames ==
    { FrameBytes(2, 0, 123, << 170 >>),          \* a ping with a one-byte payload
      FrameBytes(2, 1, 5, << 1, 2 >>),           \* a ping with a two-byte payload
      FrameBytes(4, 0, 66, << 170 >>) }          \* DataWithAck on a ping buffer

DataFrames ==
    { FrameBytes(4, 11, 66, << 18, 52, 86, 120 >>),     \* DataWithAck, unknown command
      FrameBytes(4, 127, 8, << 1, 25, 0, 0, 243, 0 >>), \* DataWithAck, known command
      FrameBytes(2, 127, 32, << 1, 25, 0, 0, 243, 0 >>),\* Data, known command
      FrameBytes(3, 126, 7, << 1, 4, 4, 0 >>),          \* LowLatency, known command
      FrameBytes(4, 200, 9, << 1, 25, 0, 0, 243, 0 >>), \* DataWithAck on an ack buffer
      FrameBytes(1, 139, 3, << 5 >>) }                  \* an Ack frame: one-byte payload

\* datagrams that are no concatenation of whole frames
MalformedDatagrams ==
    { << 2, 0, 5 >>,                             \* shorter than a header (size reads 0)
      << 2, 11, 9, 6, 0, 0, 0 >>,                \* size field below the header size
      << 4, 11, 9, 12, 0, 0, 0, 1 >> }           \* size field past the datagram

LeadFrames ==
    { FrameBytes(2, 0, 123, << 170 >>), FrameBytes(4, 11, 66, << 18, 52, 86, 120 >>) }

RECURSIVE FramesUpTo(_)
\* well-formed datagrams of at most k frames (all but the last from LeadFrames)
FramesUpTo(k) ==
    IF k <= 1 THEN PingFrames \cup DataFrames
    ELSE FramesUpTo(k - 1) \cup
         { a \o b : a \in LeadFrames, b \in FramesUpTo(k - 1) }

Datagrams == FramesUpTo(MaxFrames) \cup MalformedDatagrams

----------------------------------------------------------------------------
(* Observers *)

NoObs == [frame |-> NoFrame, out |-> << >>, decoded |-> "none", done |-> FALSE]

\* the sequence bytes of the last two replies on reply buffer b
PushReplySeq(rs, b, s) ==
    [x \in (DOMAIN rs) \cup {b} |->
        IF x = b THEN << (IF b \in DOMAIN rs THEN rs[b][2] ELSE -1), s >> ELSE rs[x]]

----------------------------------------------------------------------------
(* The writer's observer, the idle decode walk, and the supervisor after   *)
(* its first iteration has spawned its workers                             *)

\* n, err := d.connUDPWrite.Write(v.data) of a frame taken from
\* chSendingUDPPacket: the observer keeps the frame's sequence byte under
\* the frame's buffer id
Written(w, pkt) ==
    [x \in (DOMAIN w) \cup {pkt[2]} |-> IF x = pkt[2] THEN pkt[3] ELSE w[x]]

\* the supervisor waits at its select and the workers it has started are
\* at the top of their loops
WorkersStarted ==
    /\ supPc = "wait"
    /\ wrPc = "select"
    /\ rdPc = "select"
    /\ hrPc = "select"
    /\ irPc = "select"
    /\ scPc = "wait"

\* the supervisor is at the top of its loop and has started no goroutine
WorkersNotStarted ==
    /\ supPc = "new"
    /\ wrPc = "none"
    /\ rdPc = "none"
    /\ hrPc = "none"
    /\ irPc = "none"
    /\ scPc = "none"

\* no packet is being walked
WalkIdle ==
    /\ wkPc = "idle"
    /\ wkPacket = [size |-> 0, data |-> << >>, framePos |-> 0]
    /\ wkFrames = << >>
    /\ wkOut = << >>

\* the goroutines one iteration of Drone.start starts
Workers ==
    { "handleInputAction", "readKeyBoardEvent", "readNetworkUDPPacketsD2C",
      "PcmdPacketScheduler", "writeNetworkUDPPacketsC2D", "handleReadPackages" }

\* no reader of an earlier session
NoReader == [pc |-> "none", armed |-> FALSE, sock |-> "none"]

\* no waypoint executor of an earlier session
NoExecutor == [pc |-> "none", inPc |-> "none", wg |-> 0]

NoDiscover == [resp |-> "none", status |-> 0, c2d_port |-> 0,
               before |-> "", after |-> "", ret |-> "none"]

\* Drone.start at its select in its first iteration: discovery has given
\* the port, both sockets are open and all the workers run
StartSpawned ==
    /\ session = 1
    /\ attempt = 0
    /\ discErr = "nil"
    /\ portC2D = "54321"
    /\ connUDPRead = "open"
    /\ connUDPWrite = "open"
    /\ spawned = << Workers >>
    /\ exited = FALSE
    /\ discLog = NoDiscover

----------------------------------------------------------------------------
(* The state after NewDrone and the spawning of one session's workers in   *)
(* Drone.start, with the sequencer seq0 and the observer cs0 of encodeCmd. *)

SessionState(seq0, cs0, pcmd0) ==
    /\ written = << >>
    /\ irAction = "none"
    /\ irEnc = NoEnc
    /\ quit = "none"
    /\ prevRd = NoReader
    /\ prevEx = NoExecutor
    /\ inEnc = [g \in 1..MaxGen |-> -1]
    /\ sequenceNR = seq0
    /\ ctxDone = FALSE
    /\ crashed = FALSE
    /\ rdPacket = [size |-> 0, data |-> << >>, framePos |-> 0]
    /\ rdArmed = FALSE
    /\ nRead = 0
    /\ hrPacket = [size |-> 0, data |-> << >>, framePos |-> 0]
    /\ hrLastFrame = FALSE
    /\ hrFrame = NoFrame
    /\ hrP = << >>
    /\ obs = NoObs
    /\ replySeqs = << >>
    /\ irP = << >>
    /\ pcmd = pcmd0
    /\ nInputs = 0
    /\ chPcmdPacketScheduler = << >>
    /\ scP = << >>
    /\ cmdSeqs = cs0
    /\ fwdSinceTick = 0
    /\ pendingAtTick = 0
    /\ nWaypoints = 0
    /\ waypoints = << >>
    /\ accepted = << >>
    /\ rcvPc = "recv"
    /\ rcvWp = ZeroWp
    /\ rcvSnap = << >>
    /\ pullPc = "pull"
    /\ pullSnap = << >>
    /\ pullWp = ZeroWp
    /\ exPc = "waitExecute"
    /\ gen = 0
    /\ wg = [g \in 1..MaxGen |-> 0]
    /\ inPc = [g \in 1..MaxGen |-> "none"]
    /\ inCtxDone = [g \in 1..MaxGen |-> FALSE]
    /\ inP = [g \in 1..MaxGen |-> << >>]
    /\ inWp = [g \in 1..MaxGen |-> ZeroWp]
    /\ nCancels = 0
    /\ moveToLog = << >>
    /\ nCancelSent = 0
    /\ idleAfterCancel = FALSE

InitSession(seq0, cs0, pcmd0) ==
    /\ SessionState(seq0, cs0, pcmd0)
    /\ WorkersStarted
    /\ WalkIdle
    /\ StartSpawned

\* the same with the PCMD state NewDrone sets
InitWith(seq0, cs0) ==
    InitSession(seq0, cs0, ZeroPCMD)

\* a fresh session: packetCreator := newUdpPacketCreator()
Init ==
    InitWith(newUdpPacketCreator, << -1, -1 >>)

\* a fresh session, or a session whose input router has already encoded
\* WarmCmds Takeoff/Landing commands (each incremented counter 10 by one)
InitWarm ==
    \/ Init
    \/ InitWith([b \in {cmdBuffer} |-> WarmCmds % 256],
                << (WarmCmds - 1) % 256, WarmCmds % 256 >>)

\* a session whose input router has handled WarmGazIncs ActionPcmdGazInc
\* actions, or as many ActionPcmdGazDec actions, all forwarded since: the
\* counter of buffer 10 has counted them and Gaz has moved by one for each
\* up to the limit
InitGaz ==
    \E sign \in {1, -1} :
        InitSession([b \in {cmdBuffer} |-> WarmGazIncs % 256],
                    << (WarmGazIncs - 1) % 256, WarmGazIncs % 256 >>,
                    [ZeroPCMD EXCEPT !.Gaz =
                        sign * (IF WarmGazIncs > 100 THEN 100 ELSE WarmGazIncs)])

----------------------------------------------------------------------------
(* Drone.start: the supervisor's select *)

\* the process is alive: no goroutine has panicked, log.Fatal was not called
Running == ~crashed /\ ~exited

\* case <-d.chQuit / keyboard 'q' on d.chNetworkConnect: cancel()
StartCancel ==
    /\ Running
    /\ supPc = "wait"
    /\ supPc' = "done"
    /\ ctxDone' = TRUE
    /\ UNCHANGED <<lateVars, written, walkVars, startVars, sequenceNR, crashed, wrPc, dispVars, inputVars, cmdSeqs, execVars>>

\* a variant of the supervisor's case <-d.chNetworkConnect that returns as
\* the case <-d.chQuit does
StartReconnectReturn ==
    /\ Running
    /\ supPc = "wait"
    /\ rdPc = "signal"
    /\ supPc' = "done"
    /\ ctxDone' = TRUE
    /\ rdPc' = "exit"
    /\ UNCHANGED <<lateVars, written, walkVars, startVars, sequenceNR, crashed, wrPc, rdPacket, rdArmed,
                   nRead, hrVars, dispObs, inputVars, cmdSeqs, execVars>>

\* case <-d.chNetworkConnect, sent by the reader on a deadline error
StartReconnect ==
    /\ Running
    /\ supPc = "wait"
    /\ rdPc = "signal"
    /\ supPc' = "sleep"
    /\ ctxDone' = TRUE
    /\ rdPc' = "exit"
    /\ UNCHANGED <<lateVars, written, walkVars, startVars, sequenceNR, crashed, wrPc, rdPacket, rdArmed, nRead, hrVars, dispObs,
                   inputVars, cmdSeqs, execVars>>

----------------------------------------------------------------------------
(* readNetworkUDPPacketsD2C *)

\* select { case <-ctx.Done(): return; default: ... }
ReaderSelect ==
    /\ Running
    /\ rdPc = "select"
    /\ rdPc' = IF ctxDone THEN "exit" ELSE "read"
    /\ UNCHANGED <<lateVars, written, walkVars, startVars, sharedVars, rdPacket, rdArmed, nRead, hrVars, dispObs, inputVars, cmdSeqs, execVars>>

\* ReadFrom returned n bytes
ReaderReadOk ==
    /\ Running
    /\ rdPc = "read"
    /\ connUDPRead = "open"
    /\ nRead < MaxPackets
    /\ \E dg \in Datagrams :
          rdPacket' = [size |-> Len(dg), data |-> dg, framePos |-> 0]
    /\ rdArmed' = TRUE
    /\ nRead' = nRead + 1
    /\ rdPc' = "send"
    /\ UNCHANGED <<lateVars, written, walkVars, startVars, sharedVars, hrVars, dispObs, inputVars, cmdSeqs, execVars>>

\* ReadFrom failed with an error other than the deadline: it is logged and
\* the packet (n = 0, a zeroed buffer) is sent on all the same
ReaderReadErr ==
    /\ Running
    /\ rdPc = "read"
    /\ connUDPRead = "open"
    /\ nRead < MaxPackets
    /\ rdPacket' = [size |-> 0, data |-> << >>, framePos |-> 0]
    /\ rdArmed' = TRUE
    /\ nRead' = nRead + 1
    /\ rdPc' = "send"
    /\ UNCHANGED <<lateVars, written, walkVars, startVars, sharedVars, hrVars, dispObs, inputVars, cmdSeqs, execVars>>

\* ReadFrom failed with os.ErrDeadlineExceeded: d.chNetworkConnect <- struct{}{}
ReaderDeadline ==
    /\ Running
    /\ rdPc = "read"
    /\ connUDPRead = "open"
    /\ rdArmed
    /\ rdPc' = "signal"
    /\ UNCHANGED <<lateVars, written, walkVars, startVars, sharedVars, rdPacket, rdArmed, nRead, hrVars, dispObs, inputVars, cmdSeqs, execVars>>

----------------------------------------------------------------------------
(* writeNetworkUDPPacketsC2D *)

\* the writer is at its select and takes a value from chSendingUDPPacket
WriterReady == wrPc = "select"

\* case <-ctx.Done(): return
WriterExit ==
    /\ Running
    /\ wrPc = "select"
    /\ ctxDone
    /\ wrPc' = "exit"
    /\ UNCHANGED <<lateVars, written, walkVars, startVars, sequenceNR, ctxDone, crashed, supPc, dispVars, inputVars, cmdSeqs, execVars>>

----------------------------------------------------------------------------
(* handleReadPackages *)

\* the step after a frame has been handled: break on the last frame
AfterFrame(last) == IF last THEN "select" ELSE "frame"

\* select { case <-ctx.Done(): return; default: ... }
HandleReadPackagesSelect ==
    /\ Running
    /\ hrPc = "select"
    /\ hrPc' = IF ctxDone THEN "exit" ELSE "recv"
    /\ UNCHANGED <<lateVars, written, walkVars, startVars, sharedVars, readerVars, hrPacket, hrLastFrame, hrFrame, hrP, dispObs,
                   inputVars, cmdSeqs, execVars>>

\* udpPacket := <-d.chReceivedUDPPacket
HandleReadPackagesRecv ==
    /\ Running
    /\ hrPc = "recv"
    /\ rdPc = "send"
    /\ hrPacket' = rdPacket
    /\ hrLastFrame' = FALSE
    /\ hrPc' = "frame"
    /\ rdPc' = "select"
    /\ UNCHANGED <<lateVars, written, walkVars, startVars, sharedVars, rdPacket, rdArmed, nRead, hrFrame, hrP, dispObs,
                   inputVars, cmdSeqs, execVars>>

\* what the dispatcher derives from a decoded frame: a pong for buffers 0
\* and 1, else an ack for dataType 4, else nothing
ReplyFor(m, frame) ==
    IF frame.targetBufferID = 0 \/ frame.targetBufferID = 1
    THEN [kind |-> "pong", pkt |-> encodePong(m, frame)]
    ELSE IF frame.dataType = 4
         THEN [kind |-> "ack",
               pkt  |-> encodeAck(m, frame.targetBufferID, frame.sequenceNR % 256)]
         ELSE [kind |-> "none", pkt |-> [data |-> << >>, seq |-> m]]

\* frameARNetworkAL, err := udpPacket.decode(), then the encode of the reply
HandleReadPackagesFrame ==
    /\ Running
    /\ hrPc = "frame"
    /\ LET r == PacketDecode(hrPacket)
       IN  IF r.panic
           THEN /\ crashed' = TRUE
                /\ UNCHANGED <<sequenceNR, hrVars, obs>>
           ELSE LET rep == ReplyFor(sequenceNR, r.frame)
                IN  /\ crashed' = crashed
                    /\ hrFrame' = r.frame
                    /\ hrPacket' = [hrPacket EXCEPT !.framePos = r.framePos]
                    /\ hrLastFrame' = (hrLastFrame \/ r.eof)
                    /\ sequenceNR' = rep.pkt.seq
                    /\ hrP' = rep.pkt.data
                    /\ hrPc' = CASE rep.kind = "pong" -> "sendPong"
                                 [] rep.kind = "ack"  -> "sendAck"
                                 [] OTHER             -> "cmd"
                    /\ obs' = [frame |-> r.frame, out |-> << >>, decoded |-> "none",
                               done |-> FALSE]
    /\ UNCHANGED <<lateVars, written, walkVars, startVars, ctxDone, supPc, wrPc, readerVars, replySeqs, inputVars, cmdSeqs, execVars>>

\* d.chSendingUDPPacket <- p (the pong), then break or continue
HandleReadPackagesSendPong ==
    /\ Running
    /\ hrPc = "sendPong"
    /\ WriterReady
    /\ written' = Written(written, hrP)
    /\ obs' = [obs EXCEPT !.out = Append(@, hrP), !.done = TRUE]
    /\ replySeqs' = PushReplySeq(replySeqs, hrP[2], hrP[3])
    /\ hrPc' = AfterFrame(hrLastFrame)
    /\ UNCHANGED <<lateVars, walkVars, startVars, sharedVars, readerVars, hrPacket, hrLastFrame, hrFrame, hrP,
                   inputVars, cmdSeqs, execVars>>

\* d.chSendingUDPPacket <- p (the ack)
HandleReadPackagesSendAck ==
    /\ Running
    /\ hrPc = "sendAck"
    /\ WriterReady
    /\ written' = Written(written, hrP)
    /\ obs' = [obs EXCEPT !.out = Append(@, hrP)]
    /\ replySeqs' = PushReplySeq(replySeqs, hrP[2], hrP[3])
    /\ hrPc' = "cmd"
    /\ UNCHANGED <<lateVars, walkVars, startVars, sharedVars, readerVars, hrPacket, hrLastFrame, hrFrame, hrP,
                   inputVars, cmdSeqs, execVars>>

\* cmd, cmdArgs, err := frameARNetworkAL.decode(), then break or loop
HandleReadPackagesCmd ==
    /\ Running
    /\ hrPc = "cmd"
    /\ LET r == FrameDecode(hrFrame)
       IN  IF r.panic
           THEN /\ crashed' = TRUE
                /\ UNCHANGED <<hrPc, obs>>
           ELSE /\ crashed' = crashed
                /\ obs' = [obs EXCEPT !.decoded = IF r.known THEN "known" ELSE "unknown",
                                      !.done = TRUE]
                /\ hrPc' = AfterFrame(hrLastFrame)
    /\ UNCHANGED <<lateVars, written, walkVars, startVars, sequenceNR, ctxDone, supPc, wrPc, readerVars, hrPacket, hrLastFrame,
                   hrFrame, hrP, replySeqs, inputVars, cmdSeqs, execVars>>

----------------------------------------------------------------------------
(* handleInputAction *)

\* the inputAction constants
InputActions ==
    { "ActionPcmdFlag", "ActionPcmdRollLeft", "ActionPcmdRollRight",
      "ActionPcmdPitchForward", "ActionPcmdPitchBackward", "ActionPcmdYawClockwise",
      "ActionPcmdYawCounterClockwise", "ActionPcmdGazInc", "ActionPcmdGazDec",
      "ActionTakeoff", "ActionLanding", "ActionEmergency", "ActionNavigateHome",
      "ActionMoveBy", "ActionUserTakeoff", "ActionMoveTo", "ActionCancelMoveTo",
      "ActionStartPilotedPOI", "ActionStopPilotedPOI", "ActionCancelMoveBy",
      "ActionHow", "ActionFlatTrim" }

\* the actions that stand for a command of their own
CommandActions ==
    { "ActionTakeoff", "ActionLanding", "ActionEmergency", "ActionFlatTrim",
      "ActionNavigateHome", "ActionMoveBy", "ActionMoveTo", "ActionCancelMoveTo",
      "ActionStartPilotedPOI", "ActionStopPilotedPOI", "ActionCancelMoveBy" }

\* the actions that move one field of the piloting command
AxisActions ==
    { "ActionPcmdFlag", "ActionPcmdRollLeft", "ActionPcmdRollRight",
      "ActionPcmdPitchForward", "ActionPcmdPitchBackward", "ActionPcmdYawClockwise",
      "ActionPcmdYawCounterClockwise", "ActionPcmdGazInc", "ActionPcmdGazDec" }

\* the kind of an action, and whether switch action { ... } has a case for it
ActionKind(action) ==
    CASE action \in {"ActionTakeoff", "ActionLanding"}       -> "command"
      [] action \in {"ActionPcmdGazInc", "ActionPcmdGazDec"} -> "axis"
      [] action \in CommandActions                          -> "otherCommand"
      [] action \in AxisActions                             -> "otherAxis"
      [] OTHER                                              -> "unlisted"

\* the observer of encodeCmd: the sequence byte of the frame just made
PushCmdSeq(cs, pkt) == << cs[2], pkt[3] >>

\* case action := <-d.chInputActions with a command sent directly
HandleInputActionCommand ==
    /\ Running
    /\ irPc = "select"
    /\ nInputs < MaxInputs
    /\ \E action \in {"ActionTakeoff", "ActionLanding"} :
          LET c == IF action = "ActionTakeoff" THEN PilotingTakeOff ELSE PilotingLanding
              r == encodeCmd(sequenceNR, c, << >>)
          IN  /\ sequenceNR' = r.seq
              /\ irP' = r.data
              /\ cmdSeqs' = PushCmdSeq(cmdSeqs, r.data)
              /\ irAction' = ActionKind(action)
    /\ nInputs' = nInputs + 1
    /\ irPc' = "send"
    /\ UNCHANGED <<lateRest, written, walkVars, startVars, ctxDone, crashed, supPc, wrPc, dispVars, execVars, pcmd, schedVars>>

\* case action := <-d.chInputActions with ActionPcmdGazInc or ActionPcmdGazDec
HandleInputActionGaz ==
    /\ Running
    /\ irPc = "select"
    /\ nInputs < MaxInputs
    /\ \E action \in {"ActionPcmdGazInc", "ActionPcmdGazDec"} :
          LET g0 == IF action = "ActionPcmdGazInc" THEN Int8(pcmd.Gaz + 1)
                    ELSE Int8(pcmd.Gaz - 1)
              g  == CheckLimitPcmdField(g0)
              r  == encodeCmd(sequenceNR, PilotingPCMD, EncodePCMD([ZeroPCMD EXCEPT !.Gaz = g]))
          IN  /\ pcmd' = [pcmd EXCEPT !.Gaz = g]
              /\ sequenceNR' = r.seq
              /\ irP' = r.data
              /\ cmdSeqs' = PushCmdSeq(cmdSeqs, r.data)
              /\ irAction' = ActionKind(action)
    /\ nInputs' = nInputs + 1
    /\ irPc' = "sendPcmd"
    /\ UNCHANGED <<lateRest, written, walkVars, startVars, ctxDone, crashed, supPc, wrPc, dispVars, execVars, schedVars>>

\* case action := <-d.chInputActions with an action the switch has no case for
HandleInputActionOther ==
    /\ Running
    /\ irPc = "select"
    /\ nInputs < MaxInputs
    /\ \E action \in InputActions \ {"ActionTakeoff", "ActionLanding",
                                      "ActionPcmdGazInc", "ActionPcmdGazDec"} :
          /\ nInputs' = nInputs + 1
          /\ irAction' = ActionKind(action)
    /\ UNCHANGED <<lateRest, written, walkVars, startVars, sharedVars, dispVars, execVars, irPc, irP, pcmd, schedVars, cmdSeqs>>

\* d.chSendingUDPPacket <- p
HandleInputActionSend ==
    /\ Running
    /\ irPc = "send"
    /\ WriterReady
    /\ written' = Written(written, irP)
    /\ irPc' = "select"
    /\ UNCHANGED <<lateVars, walkVars, startVars, sharedVars, dispVars, execVars, irP, pcmd, nInputs, schedVars, cmdSeqs>>

\* d.chPcmdPacketScheduler <- packetCreator.encodeCmd(Command(PilotingPCMD), arg)
HandleInputActionSendPcmd ==
    /\ Running
    /\ irPc = "sendPcmd"
    /\ Len(chPcmdPacketScheduler) < PcmdChanCap
    /\ chPcmdPacketScheduler' = Append(chPcmdPacketScheduler, irP)
    /\ irPc' = "select"
    /\ UNCHANGED <<lateVars, written, walkVars, startVars, sharedVars, dispVars, execVars, irP, pcmd, nInputs, scPc, scP, fwdSinceTick,
                   pendingAtTick, cmdSeqs>>

\* case <-ctx.Done(): return
HandleInputActionExit ==
    /\ Running
    /\ irPc = "select"
    /\ ctxDone
    /\ irPc' = "exit"
    /\ UNCHANGED <<lateVars, written, walkVars, startVars, sharedVars, dispVars, execVars, irP, pcmd, nInputs, schedVars, cmdSeqs>>

----------------------------------------------------------------------------
(* PcmdPacketScheduler *)

\* a variant of the scheduler that polls the channel again after a send
SchedAfterSendDrain == "poll"

\* where the scheduler goes once it has forwarded a packet: back to the
\* outer select, to wait for the next time.After
SchedAfterSend == "wait"

\* case <-time.After(duration1)
PcmdPacketSchedulerTick ==
    /\ Running
    /\ scPc = "wait"
    /\ scPc' = "poll"
    /\ fwdSinceTick' = 0
    /\ pendingAtTick' = 0
    /\ UNCHANGED <<lateVars, written, walkVars, startVars, sharedVars, dispVars, execVars, irVars, chPcmdPacketScheduler, scP, cmdSeqs>>

\* select { case p := <-d.chPcmdPacketScheduler: ...; default: log }
PcmdPacketSchedulerPoll ==
    /\ Running
    /\ scPc = "poll"
    /\ pendingAtTick' = Len(chPcmdPacketScheduler)
    /\ IF chPcmdPacketScheduler # << >>
       THEN /\ scP' = Head(chPcmdPacketScheduler)
            /\ chPcmdPacketScheduler' = Tail(chPcmdPacketScheduler)
            /\ scPc' = "send"
       ELSE /\ scPc' = "wait"
            /\ UNCHANGED <<scP, chPcmdPacketScheduler>>
    /\ UNCHANGED <<lateVars, written, walkVars, startVars, sharedVars, dispVars, execVars, irVars, fwdSinceTick, cmdSeqs>>

\* d.chSendingUDPPacket <- p
PcmdPacketSchedulerSend ==
    /\ Running
    /\ scPc = "send"
    /\ WriterReady
    /\ written' = Written(written, scP)
    /\ fwdSinceTick' = fwdSinceTick + 1
    /\ scPc' = SchedAfterSend
    /\ UNCHANGED <<lateVars, walkVars, startVars, sharedVars, dispVars, execVars, irVars, chPcmdPacketScheduler, scP, pendingAtTick,
                   cmdSeqs>>

\* case <-ctx.Done(): return
PcmdPacketSchedulerExit ==
    /\ Running
    /\ scPc = "wait"
    /\ ctxDone
    /\ scPc' = "exit"
    /\ UNCHANGED <<lateVars, written, walkVars, startVars, sharedVars, dispVars, execVars, irVars, chPcmdPacketScheduler, scP, fwdSinceTick,
                   pendingAtTick, cmdSeqs>>

----------------------------------------------------------------------------
(* The moveTo buffer: newMoveToHandler *)

\* a variant of newMoveToHandler that makes chNewWayPointOut as well
chNewWayPointOutLive == TRUE

\* newMoveToHandler makes chNewWayPointIn only: chNewWayPointOut stays the
\* nil channel, on which a send and a receive block forever
chNewWayPointOutMade == FALSE

\* the waypoints a producer may hand in: two valid ones, one with a latitude
\* out of range, and one on the limits with the no-GPS altitude 500
WaypointInputs ==
    { [latitude |-> 10,  longitude |-> 20,  altitude |-> 30],
      [latitude |-> -45, longitude |-> 100, altitude |-> 5],
      [latitude |-> 92,  longitude |-> 20,  altitude |-> 30],
      [latitude |-> 91,  longitude |-> 181, altitude |-> 500] }

\* the switch of startWayPointReceiver: the value is not allowed
NotAllowed(wp) ==
    \/ wp.latitude > 91 \/ wp.latitude < -91
    \/ wp.longitude > 181 \/ wp.longitude < -181

\* wp := <-s.chNewWayPointIn, the switch, and the read of s.waypoints by
\* the append of pushWayPointNew
StartWayPointReceiverRecv ==
    /\ Running
    /\ rcvPc = "recv"
    /\ nWaypoints < MaxWaypoints
    /\ nWaypoints' = nWaypoints + 1
    /\ \E wp \in WaypointInputs :
          IF NotAllowed(wp)
          THEN UNCHANGED <<rcvPc, rcvWp, rcvSnap>>
          ELSE /\ rcvWp' = wp
               /\ rcvSnap' = waypoints
               /\ rcvPc' = "push"
    /\ UNCHANGED <<lateVars, written, walkVars, startVars, sharedVars, dispVars, inputVars, cmdSeqs, waypoints, accepted,
                   pullPc, pullSnap, pullWp, exVars, exObs>>

\* s.waypoints = append(s.waypoints, d): the write of the slice
PushWayPointNew ==
    /\ Running
    /\ rcvPc = "push"
    /\ waypoints' = Append(rcvSnap, rcvWp)
    /\ accepted' = Append(accepted, rcvWp)
    /\ rcvPc' = "recv"
    /\ UNCHANGED <<lateVars, written, walkVars, startVars, sharedVars, dispVars, inputVars, cmdSeqs, nWaypoints, rcvWp, rcvSnap,
                   pullPc, pullSnap, pullWp, exVars, exObs>>

\* pullWayPointNext: len(s.waypoints) == 0 gives io.EOF (sleep, continue),
\* else v := s.waypoints[0]
PullWayPointNextRead ==
    /\ Running
    /\ pullPc = "pull"
    /\ waypoints # << >>
    /\ pullSnap' = waypoints
    /\ pullWp' = Head(waypoints)
    /\ pullPc' = "write"
    /\ UNCHANGED <<lateVars, written, walkVars, startVars, sharedVars, dispVars, inputVars, cmdSeqs, nWaypoints, waypoints,
                   accepted, rcvPc, rcvWp, rcvSnap, exVars, exObs>>

\* s.waypoints = append(s.waypoints[0:0], s.waypoints[1:]...), return v, nil
PullWayPointNextWrite ==
    /\ Running
    /\ pullPc = "write"
    /\ waypoints' = Tail(pullSnap)
    /\ pullPc' = "send"
    /\ UNCHANGED <<lateVars, written, walkVars, startVars, sharedVars, dispVars, inputVars, cmdSeqs, nWaypoints, accepted,
                   rcvPc, rcvWp, rcvSnap, pullSnap, pullWp, exVars, exObs>>

\* b.chNewWayPointOut <- wp can be received from
PullerOffers ==
    chNewWayPointOutMade /\ pullPc = "send"

----------------------------------------------------------------------------
(* startMoveToExecutor *)

\* the Execute, Cancel and PositionDone signals reach the executor: their
\* channels are made and sent on by code that is not in src (NewDrone in
\* src leaves d.gps.chMoveToExecute, chMoveToCancel, chMoveToPositionDone nil)
gpsSignalsMade == TRUE

\* ctx.Done() of the inner goroutine of iteration g: its own cancel, or the
\* session's
InnerDone(g) == inCtxDone[g] \/ ctxDone

\* <-d.gps.chMoveToExecute; ctx, cancel := ...; wg.Add(1); go func(ctx)
StartMoveToExecutorExecute ==
    /\ Running
    /\ gpsSignalsMade
    /\ exPc = "waitExecute"
    /\ gen < MaxGen
    /\ gen' = gen + 1
    /\ wg' = [wg EXCEPT ![gen + 1] = 1]
    /\ inPc' = [inPc EXCEPT ![gen + 1] = "select"]
    /\ exPc' = "wgWait"
    /\ idleAfterCancel' = FALSE
    /\ UNCHANGED <<lateVars, written, walkVars, startVars, sharedVars, dispVars, inputVars, cmdSeqs, wpVars, inCtxDone, inP, inWp,
                   nCancels, moveToLog, nCancelSent>>

\* wg.Wait() returns
StartMoveToExecutorWait ==
    /\ Running
    /\ exPc = "wgWait"
    /\ wg[gen] = 0
    /\ exPc' = "cancel"
    /\ UNCHANGED <<lateVars, written, walkVars, startVars, sharedVars, dispVars, inputVars, cmdSeqs, wpVars, gen, wg, inPc,
                   inCtxDone, inP, inWp, nCancels, exObs>>

\* cancel(), and back to the top of the outer loop
StartMoveToExecutorCancel ==
    /\ Running
    /\ exPc = "cancel"
    /\ inCtxDone' = [inCtxDone EXCEPT ![gen] = TRUE]
    /\ exPc' = "waitExecute"
    /\ UNCHANGED <<lateVars, written, walkVars, startVars, sharedVars, dispVars, inputVars, cmdSeqs, wpVars, gen, wg, inPc,
                   inP, inWp, nCancels, exObs>>

\* the cases of the inner goroutine's selects that can proceed: of the outer
\* select at "select", of the select after a moveTo at "await"
ReadyCases(g) ==
    IF inPc[g] = "select"
    THEN (IF InnerDone(g) THEN {"done"} ELSE {})
         \cup (IF gpsSignalsMade /\ nCancels < MaxCancels THEN {"cancel"} ELSE {})
         \cup (IF PullerOffers THEN {"wp"} ELSE {})
    ELSE IF inPc[g] = "await"
         THEN (IF gpsSignalsMade THEN {"positionDone"} ELSE {}) \cup {"ticker"}
         ELSE {}

\* one select of the inner goroutine takes one of its ready cases
InnerSelect ==
    /\ Running
    /\ \E g \in 1..MaxGen : \E c \in ReadyCases(g) :
          LET cmd == IF c = "cancel" THEN PilotingCancelMoveTo ELSE PilotingmoveTo
              arg == IF c = "cancel" THEN << >> ELSE EncodeMoveTo(pullWp)
              r   == encodeCmd(sequenceNR, cmd, arg)
              enc == c \in {"cancel", "wp"}
          IN  /\ inPc' = [inPc EXCEPT ![g] =
                    CASE c = "done"   -> "exit"
                      [] c = "cancel" -> "sendCancel"
                      [] c = "wp"     -> "sendMoveTo"
                      [] OTHER        -> "select"]
              /\ sequenceNR' = IF enc THEN r.seq ELSE sequenceNR
              /\ cmdSeqs' = IF enc THEN PushCmdSeq(cmdSeqs, r.data) ELSE cmdSeqs
              /\ inP' = IF enc THEN [inP EXCEPT ![g] = r.data] ELSE inP
              /\ inWp' = IF c = "wp" THEN [inWp EXCEPT ![g] = pullWp] ELSE inWp
              /\ pullPc' = IF c = "wp" THEN "pull" ELSE pullPc
              /\ nCancels' = IF c = "cancel" THEN nCancels + 1 ELSE nCancels
    /\ UNCHANGED <<lateVars, written, walkVars, startVars, ctxDone, crashed, supPc, wrPc, dispVars, inputVars, nWaypoints, waypoints,
                   accepted, rcvPc, rcvWp, rcvSnap, pullSnap, pullWp, exPc, gen, wg,
                   inCtxDone, exObs>>

\* d.chSendingUDPPacket <- p of the inner goroutine; after the cancel frame,
\* wg.Done(), which panics on a negative counter
InnerSend ==
    /\ Running
    /\ WriterReady
    /\ \E g \in 1..MaxGen :
          /\ inPc[g] \in {"sendCancel", "sendMoveTo"}
          /\ written' = Written(written, inP[g])
          /\ IF inPc[g] = "sendCancel"
             THEN /\ wg' = [wg EXCEPT ![g] = @ - 1]
                  /\ crashed' = (wg[g] - 1 < 0)
                  /\ inPc' = [inPc EXCEPT ![g] = "select"]
                  /\ nCancelSent' = nCancelSent + 1
                  /\ idleAfterCancel' = TRUE
                  /\ UNCHANGED moveToLog
             ELSE /\ moveToLog' = Append(moveToLog, inWp[g])
                  /\ inPc' = [inPc EXCEPT ![g] = "await"]
                  /\ UNCHANGED <<wg, crashed, nCancelSent, idleAfterCancel>>
    /\ UNCHANGED <<lateVars, walkVars, startVars, sequenceNR, ctxDone, supPc, wrPc, dispVars, inputVars, cmdSeqs, wpVars,
                   exPc, gen, inCtxDone, inP, inWp, nCancels>>

----------------------------------------------------------------------------
(* encodeCmd called by two goroutines on the one map of the session's      *)
(* udpPacketCreator: handleInputAction gets the struct by value and the    *)
(* executor by pointer, the map inside is the same, and no lock is taken.  *)
(* u.sequenceNR[buffer]++ is a load and a store, and                       *)
(* psequenceNR := u.sequenceNR[buffer] a second load.                      *)

\* the frame encodeCmd builds once it has read psequenceNR
EncodeCmdFrame(psequenceNR, c, adata) ==
    encodeCmd([b \in {cmdBuffer} |-> (psequenceNR + 255) % 256], c, adata).data

\* a goroutine is between the load and the store of its increment
InnerStoring == \E g \in 1..MaxGen : inPc[g] = "incStore"
RouterStoring == irPc = "incStore"

\* case action := <-d.chInputActions with ActionTakeoff or ActionLanding:
\* encodeCmd loads the counter of buffer 10
HandleInputActionLoad ==
    /\ Running
    /\ irPc = "select"
    /\ nInputs < MaxInputs
    /\ \E action \in {"ActionTakeoff", "ActionLanding"} :
          /\ irEnc' = [cmd |-> IF action = "ActionTakeoff" THEN PilotingTakeOff
                               ELSE PilotingLanding,
                       v   |-> MapGet(sequenceNR, cmdBuffer)]
          /\ irAction' = ActionKind(action)
    /\ nInputs' = nInputs + 1
    /\ irPc' = "incStore"
    /\ UNCHANGED <<quit, prevRd, prevEx, inEnc, written, walkVars, startVars, sharedVars, dispVars, execVars,
                   irP, pcmd, schedVars, cmdSeqs>>

\* the store of the increment; the runtime may find the other goroutine's
\* map write under way and end the process ("concurrent map writes")
HandleInputActionStore ==
    /\ Running
    /\ irPc = "incStore"
    /\ \E fatal \in {FALSE, InnerStoring} :
          /\ crashed' = fatal
          /\ sequenceNR' = IF fatal THEN sequenceNR
                           ELSE MapSet(sequenceNR, cmdBuffer, (irEnc.v + 1) % 256)
    /\ irPc' = "seqRead"
    /\ UNCHANGED <<lateVars, written, walkVars, startVars, ctxDone, supPc, wrPc, dispVars,
                   execVars, irP, pcmd, nInputs, schedVars, cmdSeqs>>

\* psequenceNR := u.sequenceNR[buffer], and the frame
HandleInputActionEncode ==
    /\ Running
    /\ irPc = "seqRead"
    /\ irP' = EncodeCmdFrame(MapGet(sequenceNR, cmdBuffer), irEnc.cmd, << >>)
    /\ cmdSeqs' = PushCmdSeq(cmdSeqs, irP')
    /\ irEnc' = NoEnc
    /\ irPc' = "send"
    /\ UNCHANGED <<quit, prevRd, prevEx, irAction, inEnc, written, walkVars, startVars, sharedVars, dispVars,
                   execVars, pcmd, nInputs, schedVars>>

\* case <-d.gps.chMoveToCancel of the inner goroutine: encodeCmd loads the
\* counter of buffer 10
InnerCancelLoad ==
    /\ Running
    /\ \E g \in 1..MaxGen :
          /\ inPc[g] = "select"
          /\ "cancel" \in ReadyCases(g)
          /\ inEnc' = [inEnc EXCEPT ![g] = MapGet(sequenceNR, cmdBuffer)]
          /\ inPc' = [inPc EXCEPT ![g] = "incStore"]
    /\ nCancels' = nCancels + 1
    /\ UNCHANGED <<quit, prevRd, prevEx, irAction, irEnc, written, walkVars, startVars, sharedVars, dispVars,
                   inputVars, cmdSeqs, wpVars, exPc, gen, wg, inCtxDone, inP, inWp, exObs>>

\* the store of the inner goroutine's increment
InnerCancelStore ==
    /\ Running
    /\ \E g \in 1..MaxGen : \E fatal \in {FALSE, RouterStoring} :
          /\ inPc[g] = "incStore"
          /\ crashed' = fatal
          /\ sequenceNR' = IF fatal THEN sequenceNR
                           ELSE MapSet(sequenceNR, cmdBuffer, (inEnc[g] + 1) % 256)
          /\ inPc' = [inPc EXCEPT ![g] = "seqRead"]
    /\ UNCHANGED <<lateVars, written, walkVars, startVars, ctxDone, supPc, wrPc, dispVars,
                   inputVars, cmdSeqs, wpVars, exPc, gen, wg, inCtxDone, inP, inWp,
                   nCancels, exObs>>

\* psequenceNR := u.sequenceNR[buffer] of the inner goroutine, and the frame
InnerCancelEncode ==
    /\ Running
    /\ \E g \in 1..MaxGen :
          /\ inPc[g] = "seqRead"
          /\ inP' = [inP EXCEPT ![g] =
                EncodeCmdFrame(MapGet(sequenceNR, cmdBuffer), PilotingCancelMoveTo, << >>)]
          /\ cmdSeqs' = PushCmdSeq(cmdSeqs, inP'[g])
          /\ inEnc' = [inEnc EXCEPT ![g] = -1]
          /\ inPc' = [inPc EXCEPT ![g] = "sendCancel"]
    /\ UNCHANGED <<quit, prevRd, prevEx, irAction, irEnc, written, walkVars, startVars, sharedVars, dispVars,
                   inputVars, wpVars, exPc, gen, wg, inCtxDone, inWp, nCancels, exObs>>

----------------------------------------------------------------------------
(* The decode walk: networkUDPPacket.decode called over and over on one    *)
(* packet, as the frame loop of handleReadPackages calls it                *)

\* frames in one walked packet
MaxWalkFrames == 3

\* the frames walked packets are built from
WalkFrames ==
    { FrameBytes(2, 0, 123, << 170 >>),
      FrameBytes(4, 11, 66, << 18, 52, 86, 120 >>),
      FrameBytes(1, 139, 3, << >>),                     \* a header with no payload
      FrameBytes(3, 126, 7, << 1, 4, 4, 0 >>),
      FrameBytes(2, 127, 1, [i \in 1..300 |-> i % 256]) } \* a size above one byte

RECURSIVE Concat(_)
\* the bytes of a sequence of frames, one after the other
Concat(fs) ==
    IF fs = << >> THEN << >> ELSE Head(fs) \o Concat(Tail(fs))

RECURSIVE FrameSeqs(_)
\* the sequences of 1..k frames
FrameSeqs(k) ==
    IF k <= 1 THEN { << f >> : f \in WalkFrames }
    ELSE FrameSeqs(k - 1) \cup
         { << f >> \o fs : f \in WalkFrames, fs \in { x \in FrameSeqs(k - 1) : Len(x) = k - 1 } }

\* a well-formed packet has been received whole: size is the datagram length
InitDecode ==
    /\ SessionState(newUdpPacketCreator, << -1, -1 >>, ZeroPCMD)
    /\ WorkersStarted
    /\ StartSpawned
    /\ \E fs \in FrameSeqs(MaxWalkFrames) :
          /\ wkFrames = fs
          /\ wkPacket = [size |-> Len(Concat(fs)), data |-> Concat(fs), framePos |-> 0]
    /\ wkOut = << >>
    /\ wkPc = "walk"

\* frameARNetworkAL, err := udpPacket.decode(); lastFrame on io.EOF ends the walk
DecodeStep ==
    /\ wkPc = "walk"
    /\ LET r == PacketDecode(wkPacket)
       IN  IF r.panic
           THEN /\ wkPc' = "panic"
                /\ UNCHANGED <<wkPacket, wkOut>>
           ELSE /\ wkOut' = Append(wkOut, [frame |-> r.frame, eof |-> r.eof,
                                           pos |-> wkPacket.framePos])
                /\ wkPacket' = [wkPacket EXCEPT !.framePos = r.framePos]
                /\ wkPc' = IF r.eof THEN "done" ELSE "walk"
    /\ UNCHANGED <<lateVars, wkFrames, written, startVars, sharedVars, dispVars, inputVars, cmdSeqs,
                   execVars>>

----------------------------------------------------------------------------
(* Drone.Discover *)

\* strconv.Itoa on the ports that occur
Itoa(n) ==
    CASE n = 0     -> "0"
      [] n = 54321 -> "54321"
      [] n = 54322 -> "54322"

\* what the discovery exchange can bring: the TCP dial fails, the read of
\* the response fails, the response is no JSON text, or it is a JSON object
\* with its status and c2d_port
DiscoverResponses ==
    { [kind |-> "dialError",   status |-> 0, c2d_port |-> 0],
      [kind |-> "readError",   status |-> 0, c2d_port |-> 0],
      [kind |-> "invalidJSON", status |-> 0, c2d_port |-> 0],
      [kind |-> "json",        status |-> 0, c2d_port |-> 54321],
      [kind |-> "json",        status |-> 0, c2d_port |-> 54322],
      [kind |-> "json",        status |-> 1, c2d_port |-> 54321] }

\* json.Unmarshal(data, &discoverData) into the zero-valued struct: text
\* that is no JSON leaves every field 0
Unmarshal(resp) ==
    IF resp.kind = "json"
    THEN [err |-> FALSE, Status |-> resp.status, C2dPort |-> resp.c2d_port]
    ELSE [err |-> TRUE, Status |-> 0, C2dPort |-> 0]

\* Drone.Discover: the value returned ("err", "nil", or "exit" when
\* log.Fatal ends the process) and d.portC2D afterwards.  A dial or read
\* error is returned; an Unmarshal error is logged only.
Discover(resp, port) ==
    IF resp.kind \in {"dialError", "readError"}
    THEN [ret |-> "err", portC2D |-> port]
    ELSE LET discoverData == Unmarshal(resp)
         IN  IF discoverData.Status # 0
             THEN [ret |-> "exit", portC2D |-> port]
             ELSE [ret |-> "nil", portC2D |-> Itoa(discoverData.C2dPort)]

----------------------------------------------------------------------------
(* Drone.start: the loop around one session *)

\* runs of the loop of Drone.start in one run of the model
MaxSessions == 2

\* for i := 0; i < 20; i++
DiscoverAttempts == 20

\* the process has just called Drone.start: nothing is started yet
ProgramStart ==
    /\ SessionState(newUdpPacketCreator, << -1, -1 >>, ZeroPCMD)
    /\ WorkersNotStarted
    /\ WalkIdle
    /\ session = 0
    /\ attempt = 0
    /\ discErr = "none"
    /\ portC2D = ""
    /\ connUDPRead = "nil"
    /\ connUDPWrite = "nil"
    /\ spawned = << >>
    /\ exited = FALSE
    /\ discLog = NoDiscover

\* the top of the loop: packetCreator := newUdpPacketCreator(), a new ctx,
\* go d.handleInputAction, go d.readKeyBoardEvent
StartNew ==
    /\ Running
    /\ supPc \in {"new", "sleep"}
    /\ session < MaxSessions
    /\ session' = session + 1
    /\ sequenceNR' = newUdpPacketCreator
    /\ cmdSeqs' = << -1, -1 >>
    /\ replySeqs' = << >>
    /\ ctxDone' = FALSE
    /\ irPc' = "select"
    /\ spawned' = Append(spawned, {"handleInputAction", "readKeyBoardEvent"})
    /\ attempt' = 0
    /\ discErr' = "none"
    /\ supPc' = "discover"
    /\ UNCHANGED <<lateVars, crashed, wrPc, readerVars, hrVars, obs, irP, pcmd, nInputs, schedVars,
                   execVars, written, walkVars, portC2D, connUDPRead, connUDPWrite, exited,
                   discLog>>

\* one pass of the discovery loop: err := d.Discover(); on an error sleep
\* and continue, else break; after the last pass the loop is left as well
StartDiscover ==
    /\ Running
    /\ supPc = "discover"
    /\ attempt < DiscoverAttempts
    /\ \E resp \in DiscoverResponses :
          LET r == Discover(resp, portC2D)
          IN  /\ discLog' = [resp |-> resp.kind, status |-> resp.status,
                             c2d_port |-> resp.c2d_port,
                             before |-> portC2D, after |-> r.portC2D, ret |-> r.ret]
              /\ portC2D' = r.portC2D
              /\ exited' = (r.ret = "exit")
              /\ discErr' = r.ret
              /\ attempt' = IF r.ret = "err" THEN attempt + 1 ELSE attempt
              /\ supPc' = IF r.ret = "nil" \/ (r.ret = "err" /\ attempt + 1 = DiscoverAttempts)
                          THEN "listen" ELSE "discover"
    /\ UNCHANGED <<lateVars, sequenceNR, ctxDone, crashed, wrPc, dispVars, inputVars, cmdSeqs, execVars,
                   written, walkVars, session, connUDPRead, connUDPWrite, spawned>>

\* d.connUDPRead, err = net.ListenPacket(...): an error is logged only;
\* then go d.readNetworkUDPPacketsD2C(ctx)
StartListen ==
    /\ Running
    /\ supPc = "listen"
    /\ \E ok \in BOOLEAN :
          connUDPRead' = IF ok THEN "open" ELSE "nil"
    /\ rdPc' = "select"
    /\ rdArmed' = FALSE
    /\ spawned' = [spawned EXCEPT ![session] = @ \cup {"readNetworkUDPPacketsD2C"}]
    /\ supPc' = "dial"
    /\ UNCHANGED <<lateVars, sequenceNR, ctxDone, crashed, wrPc, rdPacket, nRead, hrVars, dispObs,
                   inputVars, cmdSeqs, execVars, written, walkVars, session, attempt, discErr,
                   portC2D, connUDPWrite, exited, discLog>>

\* net.ResolveUDPAddr and d.connUDPWrite, err = net.DialUDP(...): the errors
\* are logged only; then go d.PcmdPacketScheduler, go
\* d.writeNetworkUDPPacketsC2D, go d.handleReadPackages
StartDial ==
    /\ Running
    /\ supPc = "dial"
    /\ \E ok \in BOOLEAN :
          connUDPWrite' = IF ok THEN "open" ELSE "nil"
    /\ scPc' = "wait"
    /\ wrPc' = "select"
    /\ hrPc' = "select"
    /\ spawned' = [spawned EXCEPT ![session] =
                      @ \cup {"PcmdPacketScheduler", "writeNetworkUDPPacketsC2D",
                              "handleReadPackages"}]
    /\ supPc' = "wait"
    /\ UNCHANGED <<lateVars, sequenceNR, ctxDone, crashed, readerVars, hrPacket, hrLastFrame, hrFrame,
                   hrP, dispObs, irVars, chPcmdPacketScheduler, scP, fwdSinceTick,
                   pendingAtTick, cmdSeqs, execVars, written, walkVars, session, attempt,
                   discErr, portC2D, connUDPRead, exited, discLog>>

\* d.connUDPRead.ReadFrom(p) on the nil interface a failed ListenPacket
\* left: a nil dereference
ReaderReadNil ==
    /\ Running
    /\ rdPc = "read"
    /\ connUDPRead = "nil"
    /\ crashed' = TRUE
    /\ UNCHANGED <<lateVars, sequenceNR, ctxDone, supPc, wrPc, dispVars, inputVars, cmdSeqs, execVars,
                   written, walkVars, startVars>>

\* udpPacket := <-d.chReceivedUDPPacket seen from the reader: a dispatcher
\* takes the packet the reader is sending
ReceivedPacketTaken ==
    /\ Running
    /\ rdPc = "send"
    /\ \E s \in 1..Len(spawned) : "handleReadPackages" \in spawned[s]
    /\ rdPc' = "select"
    /\ UNCHANGED <<lateVars, sharedVars, rdPacket, rdArmed, nRead, hrVars, dispObs, inputVars, cmdSeqs,
                   execVars, written, walkVars, startVars>>

\* case event.Key == keyboard.KeyEsc: d.chQuit <- struct{}{} of a
\* readKeyBoardEvent goroutine; the send waits for a receiver
KeyboardQuit ==
    /\ Running
    /\ quit = "none"
    /\ supPc # "done"
    /\ \E s \in 1..Len(spawned) : "readKeyBoardEvent" \in spawned[s]
    /\ quit' = "pending"
    /\ UNCHANGED <<irAction, encVars, prevRd, prevEx, sharedVars, dispVars, inputVars, cmdSeqs, execVars,
                   written, walkVars, startVars>>

\* case <-d.chQuit of the select of Drone.start: cancel(); return
StartQuit ==
    /\ Running
    /\ supPc = "wait"
    /\ quit = "pending"
    /\ quit' = "accepted"
    /\ supPc' = "done"
    /\ ctxDone' = TRUE
    /\ UNCHANGED <<irAction, encVars, prevRd, prevEx, written, walkVars, startVars, sequenceNR, crashed,
                   wrPc, dispVars, inputVars, cmdSeqs, execVars>>

\* one pass of the discovery loop with a quit waiting to be received: the
\* dialer of Discover (net.Dialer{Cancel: d.chQuit}) receives it, the dial
\* is cancelled and Discover returns the error
StartDiscoverQuit ==
    /\ Running
    /\ supPc = "discover"
    /\ attempt < DiscoverAttempts
    /\ quit = "pending"
    /\ quit' = "lost"
    /\ LET resp == [kind |-> "dialError", status |-> 0, c2d_port |-> 0]
           r    == Discover(resp, portC2D)
       IN  /\ discLog' = [resp |-> resp.kind, status |-> resp.status,
                          c2d_port |-> resp.c2d_port,
                          before |-> portC2D, after |-> r.portC2D, ret |-> r.ret]
           /\ portC2D' = r.portC2D
           /\ discErr' = r.ret
    /\ attempt' = attempt + 1
    /\ supPc' = IF attempt + 1 = DiscoverAttempts THEN "listen" ELSE "discover"
    /\ UNCHANGED <<irAction, encVars, prevRd, prevEx, sequenceNR, ctxDone, crashed, wrPc, dispVars,
                   inputVars, cmdSeqs, execVars, written, walkVars, session, connUDPRead,
                   connUDPWrite, spawned, exited>>

\* the supervisor's loop with the operator's quit as a send on d.chQuit
NextQuit ==
    \/ StartNew
    \/ StartDiscover
    \/ StartDiscoverQuit
    \/ StartListen
    \/ StartDial
    \/ KeyboardQuit
    \/ StartQuit
    \/ StartReconnect
    \/ ReaderSelect
    \/ ReaderReadOk
    \/ ReaderReadErr
    \/ ReaderReadNil
    \/ ReaderDeadline
    \/ ReceivedPacketTaken

\* case event.Rune == 'q': d.chNetworkConnect <- struct{}{} of
\* readKeyBoardEvent, taken by the select of Drone.start: cancel(), sleep.
\* The reader is left where it is.
KeyboardReconnect ==
    /\ Running
    /\ supPc = "wait"
    /\ \E s \in 1..Len(spawned) : "readKeyBoardEvent" \in spawned[s]
    /\ ctxDone' = TRUE
    /\ supPc' = "sleep"
    /\ UNCHANGED <<lateVars, written, walkVars, startVars, sequenceNR, crashed, wrPc,
                   dispVars, inputVars, cmdSeqs, execVars>>

\* the top of the loop after the sleep: a new packetCreator and a new ctx;
\* the reader of the run before, if it has not returned, goes on under its
\* cancelled ctx and with the socket it is using, and so does the waypoint
\* executor of the run before, which is taken over as it waits for Execute
StartAgain ==
    /\ Running
    /\ supPc = "sleep"
    /\ session < MaxSessions
    /\ session' = session + 1
    /\ sequenceNR' = newUdpPacketCreator
    /\ cmdSeqs' = << -1, -1 >>
    /\ replySeqs' = << >>
    /\ ctxDone' = FALSE
    /\ irPc' = "select"
    /\ spawned' = Append(spawned, {"handleInputAction", "readKeyBoardEvent"})
    /\ attempt' = 0
    /\ discErr' = "none"
    /\ supPc' = "discover"
    /\ prevRd' = [pc    |-> rdPc,
                  armed |-> rdArmed,
                  sock  |-> IF rdPc = "exit" /\ connUDPRead = "open" THEN "closed"
                            ELSE connUDPRead]
    /\ rdPc' = "none"
    /\ rdArmed' = FALSE
    /\ prevEx' = [pc |-> exPc, inPc |-> "none", wg |-> 0]
    /\ UNCHANGED <<irAction, encVars, quit, crashed, wrPc, rdPacket, nRead, hrVars, obs,
                   irP, pcmd, nInputs, schedVars, execVars, written, walkVars, portC2D,
                   connUDPRead, connUDPWrite, exited, discLog>>

\* the socket of the earlier reader is still bound to portD2C, so that a
\* net.ListenPacket on the same port fails
PrevSocketHeld == prevRd.sock = "open"

\* net.ListenPacket of the current run has not assigned d.connUDPRead yet:
\* the field still holds the socket of the run before
FieldIsPrevSocket == supPc \in {"discover", "listen"}

\* the earlier reader's select: its ctx is cancelled, it returns, and its
\* deferred call closes d.connUDPRead, whatever the field holds by now; on
\* a nil field the call panics
PrevReaderReturn ==
    /\ Running
    /\ prevRd.pc = "select"
    /\ IF connUDPRead = "nil"
       THEN /\ crashed' = TRUE
            /\ UNCHANGED <<prevRd, connUDPRead>>
       ELSE /\ connUDPRead' = "closed"
            /\ prevRd' = [prevRd EXCEPT !.pc = "exit",
                             !.sock = IF FieldIsPrevSocket /\ @ = "open" THEN "closed" ELSE @]
            /\ UNCHANGED crashed
    /\ UNCHANGED <<irAction, encVars, quit, prevEx, sequenceNR, ctxDone, supPc, wrPc, dispVars,
                   inputVars, cmdSeqs, execVars, written, walkVars, session, attempt,
                   discErr, portC2D, connUDPWrite, spawned, exited, discLog>>

\* the earlier reader's ReadFrom returns a datagram (its socket is still
\* bound to the port), or fails with an error other than the deadline
PrevReaderRead ==
    /\ Running
    /\ prevRd.pc = "read"
    /\ prevRd.sock = "open"
    /\ nRead < MaxPackets
    /\ nRead' = nRead + 1
    /\ prevRd' = [prevRd EXCEPT !.pc = "send", !.armed = TRUE]
    /\ UNCHANGED <<irAction, encVars, quit, prevEx, sharedVars, rdPc, rdPacket, rdArmed, hrVars,
                   dispObs, inputVars, cmdSeqs, execVars, written, walkVars, startVars>>

\* the earlier reader's ReadFrom on a nil d.connUDPRead
PrevReaderReadNil ==
    /\ Running
    /\ prevRd.pc = "read"
    /\ prevRd.sock = "nil"
    /\ connUDPRead = "nil"
    /\ crashed' = TRUE
    /\ UNCHANGED <<lateVars, sequenceNR, ctxDone, supPc, wrPc, dispVars, inputVars, cmdSeqs,
                   execVars, written, walkVars, startVars>>

\* the earlier reader's ReadFrom fails with os.ErrDeadlineExceeded: it
\* goes to send on d.chNetworkConnect
PrevReaderDeadline ==
    /\ Running
    /\ prevRd.pc = "read"
    /\ prevRd.sock = "open"
    /\ prevRd.armed
    /\ prevRd' = [prevRd EXCEPT !.pc = "signal"]
    /\ UNCHANGED <<irAction, encVars, quit, prevEx, sharedVars, dispVars, inputVars, cmdSeqs,
                   execVars, written, walkVars, startVars>>

\* d.chReceivedUDPPacket <- packet of the earlier reader, taken by a
\* dispatcher
PrevPacketTaken ==
    /\ Running
    /\ prevRd.pc = "send"
    /\ \E s \in 1..Len(spawned) : "handleReadPackages" \in spawned[s]
    /\ prevRd' = [prevRd EXCEPT !.pc = "select"]
    /\ UNCHANGED <<irAction, encVars, quit, prevEx, sharedVars, dispVars, inputVars, cmdSeqs,
                   execVars, written, walkVars, startVars>>

\* case <-d.chNetworkConnect of the select of Drone.start, the sender being
\* the earlier reader: cancel() of the current ctx, sleep; the earlier
\* reader returns and its deferred call closes d.connUDPRead
StartReconnectStale ==
    /\ Running
    /\ supPc = "wait"
    /\ prevRd.pc = "signal"
    /\ supPc' = "sleep"
    /\ ctxDone' = TRUE
    /\ IF connUDPRead = "nil"
       THEN /\ crashed' = TRUE
            /\ prevRd' = [prevRd EXCEPT !.pc = "exit"]
            /\ UNCHANGED connUDPRead
       ELSE /\ connUDPRead' = "closed"
            /\ prevRd' = [prevRd EXCEPT !.pc = "exit"]
            /\ UNCHANGED crashed
    /\ UNCHANGED <<irAction, encVars, quit, prevEx, sequenceNR, wrPc, dispVars, inputVars, cmdSeqs,
                   execVars, written, walkVars, session, attempt, discErr, portC2D,
                   connUDPWrite, spawned, exited, discLog>>

\* ReadFrom of the current reader on a socket that has been closed: an
\* error other than the deadline, handled as any such error
ReaderReadClosed ==
    /\ Running
    /\ rdPc = "read"
    /\ connUDPRead = "closed"
    /\ nRead < MaxPackets
    /\ rdPacket' = [size |-> 0, data |-> << >>, framePos |-> 0]
    /\ rdArmed' = TRUE
    /\ nRead' = nRead + 1
    /\ rdPc' = "send"
    /\ UNCHANGED <<lateVars, written, walkVars, startVars, sharedVars, hrVars, dispObs,
                   inputVars, cmdSeqs, execVars>>

\* the supervisor's loop with the reader of the current and of the earlier
\* session and the operator's reconnect request
NextWatchdog ==
    \/ StartNew /\ supPc = "new"
    \/ StartAgain
    \/ StartDiscover
    \/ StartListen /\ (PrevSocketHeld => connUDPRead' = "nil")
    \/ StartDial
    \/ StartReconnect
    \/ KeyboardReconnect
    \/ StartReconnectStale
    \/ ReaderSelect
    \/ ReaderReadOk
    \/ ReaderReadErr
    \/ ReaderReadNil
    \/ ReaderReadClosed
    \/ ReaderDeadline
    \/ ReceivedPacketTaken
    \/ PrevReaderReturn
    \/ PrevReaderRead
    \/ PrevReaderReadNil
    \/ PrevReaderDeadline
    \/ PrevPacketTaken

\* the writer, the scheduler and the input router of the cancelled session
\* have all seen ctx.Done() and returned
OldWorkersReturned ==
    /\ wrPc = "exit"
    /\ scPc = "exit"
    /\ irPc = "exit"

\* the executor of the current session waits for Execute and has started
\* no inner goroutine yet
ExecutorIdle == exPc = "waitExecute" /\ gen = 0

\* <-d.gps.chMoveToExecute received by the executor of the earlier session,
\* which never looks at its ctx there: ctx, cancel := context.WithCancel(ctx)
\* of the cancelled ctx, wg.Add(1), go func(ctx)
PrevExecutorExecute ==
    /\ Running
    /\ gpsSignalsMade
    /\ prevEx.pc = "waitExecute"
    /\ prevEx' = [pc |-> "wgWait", inPc |-> "select", wg |-> 1]
    /\ UNCHANGED <<irAction, encVars, quit, prevRd, sharedVars, dispVars, inputVars,
                   cmdSeqs, execVars, written, walkVars, startVars>>

\* the select of that executor's inner goroutine: case <-ctx.Done(): return,
\* its ctx being cancelled from the start; wg.Done() is not called
PrevInnerReturn ==
    /\ Running
    /\ prevEx.inPc = "select"
    /\ prevEx' = [prevEx EXCEPT !.inPc = "exit"]
    /\ UNCHANGED <<irAction, encVars, quit, prevRd, sharedVars, dispVars, inputVars,
                   cmdSeqs, execVars, written, walkVars, startVars>>

\* Drone.start from its call on, or from a first session that has run a
\* while, with the reader of each session
InitStart ==
    \/ ProgramStart
    \/ InitWarm

NextStart ==
    \/ StartNew
    \/ StartDiscover
    \/ StartListen
    \/ StartDial
    \/ StartCancel
    \/ StartReconnect
    \/ ReaderSelect
    \/ ReaderReadOk
    \/ ReaderReadErr
    \/ ReaderReadNil
    \/ ReaderDeadline
    \/ ReceivedPacketTaken

----------------------------------------------------------------------------
(* Specifications *)

\* the session's supervisor and writer
NextSession ==
    \/ StartCancel
    \/ WriterExit

\* the inbound plane: reader and dispatcher
NextDispatch ==
    \/ StartReconnect
    \/ ReaderSelect
    \/ ReaderReadOk
    \/ ReaderReadErr
    \/ ReaderDeadline
    \/ HandleReadPackagesSelect
    \/ HandleReadPackagesRecv
    \/ HandleReadPackagesFrame
    \/ HandleReadPackagesSendPong
    \/ HandleReadPackagesSendAck
    \/ HandleReadPackagesCmd

\* the input plane: input router and PCMD scheduler
NextInput ==
    \/ HandleInputActionCommand
    \/ HandleInputActionGaz
    \/ HandleInputActionOther
    \/ HandleInputActionSend
    \/ HandleInputActionSendPcmd
    \/ HandleInputActionExit
    \/ PcmdPacketSchedulerTick
    \/ PcmdPacketSchedulerPoll
    \/ PcmdPacketSchedulerSend
    \/ PcmdPacketSchedulerExit

\* the moveTo buffer's two goroutines
NextBuffer ==
    \/ StartWayPointReceiverRecv
    \/ PushWayPointNew
    \/ PullWayPointNextRead
    \/ PullWayPointNextWrite

\* the waypoint executor's goroutines
NextExecutor ==
    \/ StartMoveToExecutorExecute
    \/ StartMoveToExecutorWait
    \/ StartMoveToExecutorCancel
    \/ InnerSelect
    \/ InnerSend

\* the two goroutines that encode commands for buffer 10, with the
\* sequencer's increment taken as its load and its store
NextSequencer ==
    \/ HandleInputActionLoad
    \/ HandleInputActionStore
    \/ HandleInputActionEncode
    \/ HandleInputActionSend
    \/ HandleInputActionExit
    \/ StartMoveToExecutorExecute
    \/ StartMoveToExecutorWait
    \/ StartMoveToExecutorCancel
    \/ InnerCancelLoad
    \/ InnerCancelStore
    \/ InnerCancelEncode
    \/ InnerSend

\* input actions over the two sessions of a run with a reconnect
MaxReconnectInputs == 2

\* the supervisor's loop with the input router, the scheduler and the
\* writer of each session; the loop starts again once the workers of the
\* cancelled session have returned, and discovery succeeds in its first
\* pass.  The channels are those NewDrone made.
NextReconnect ==
    \/ KeyboardReconnect
    \/ StartNew /\ OldWorkersReturned
    \/ StartDiscover /\ discErr' = "nil"
    \/ StartListen
    \/ StartDial
    \/ WriterExit
    \/ NextInput /\ nInputs' <= MaxReconnectInputs

\* the supervisor's loop with the waypoint executors of two sessions and
\* the moveTo buffer: Execute signals and waypoints arrive, Cancel signals
\* do not; the loop starts again with the first executor waiting for
\* Execute, and discovery succeeds in its first pass
NextExecutors ==
    \/ KeyboardReconnect
    \/ StartAgain /\ ExecutorIdle
    \/ StartDiscover /\ discErr' = "nil"
    \/ StartListen
    \/ StartDial
    \/ NextBuffer
    \/ StartMoveToExecutorExecute
    \/ InnerSelect /\ nCancels' = nCancels
    \/ PrevExecutorExecute
    \/ PrevInnerReturn

Next ==
    \/ NextSession
    \/ NextDispatch
    \/ NextInput
    \/ NextBuffer
    \/ NextExecutor

\* the whole session
Spec == Init /\ [][Next]_vars

\* the session with inbound traffic only
SpecDispatch == Init /\ [][NextSession \/ NextDispatch]_vars

\* the same, where every goroutine that can take a step eventually takes
\* one and an armed read deadline expires; the arrival of datagrams and
\* the operator's quit are not forced
SpecDispatchFair ==
    /\ SpecDispatch
    /\ WF_vars(StartReconnect)
    /\ WF_vars(WriterExit)
    /\ WF_vars(ReaderSelect)
    /\ WF_vars(ReaderDeadline)
    /\ WF_vars(HandleReadPackagesSelect)
    /\ WF_vars(HandleReadPackagesRecv)
    /\ WF_vars(HandleReadPackagesFrame)
    /\ WF_vars(HandleReadPackagesSendPong)
    /\ WF_vars(HandleReadPackagesSendAck)
    /\ WF_vars(HandleReadPackagesCmd)

\* the session with input actions only, fresh or warm
SpecInput == InitWarm /\ [][NextSession \/ NextInput]_vars

\* the session with input actions only, the Gaz axis near a limit
SpecInputGaz == InitGaz /\ [][NextSession \/ NextInput]_vars

\* the session with waypoints and executor signals only
SpecExec == Init /\ [][NextSession \/ NextBuffer \/ NextExecutor]_vars

\* the session with commands and executor signals only, the sequencer's
\* increment not atomic
SpecSequencer == Init /\ [][NextSession \/ NextSequencer]_vars

\* the decode walk over one well-formed packet
SpecDecode == InitDecode /\ [][DecodeStep]_vars

\* the supervisor's loop with the reader of each session
SpecStart == InitStart /\ [][NextStart]_vars

\* the same, where the supervisor and the reader take the steps they can
\* take; what the network and the operator do is not forced
SpecStartFair ==
    /\ InitStart
    /\ [][NextStart]_vars
    /\ WF_vars(StartNew)
    /\ WF_vars(StartDiscover)
    /\ WF_vars(StartListen)
    /\ WF_vars(StartDial)
    /\ WF_vars(StartReconnect)
    /\ WF_vars(ReaderSelect)
    /\ WF_vars(ReaderDeadline)
    /\ WF_vars(ReaderReadNil)
    /\ WF_vars(ReceivedPacketTaken)

\* the supervisor's loop from the call of Drone.start, with the operator's
\* quit as a send on d.chQuit; the supervisor and the reader take the steps
\* they can take, and a quit the select can take is taken
SpecQuit ==
    /\ ProgramStart
    /\ [][NextQuit]_vars
    /\ WF_vars(StartNew)
    /\ WF_vars(StartDiscover)
    /\ WF_vars(StartListen)
    /\ WF_vars(StartDial)
    /\ WF_vars(StartQuit)
    /\ WF_vars(ReaderSelect)
    /\ WF_vars(ReaderDeadline)
    /\ WF_vars(ReaderReadNil)
    /\ WF_vars(ReceivedPacketTaken)

\* the supervisor's loop from the call of Drone.start, with the readers of
\* two sessions and the operator's reconnect request
SpecWatchdog == ProgramStart /\ [][NextWatchdog]_vars

\* a first session with input actions, a reconnect, and a second session
SpecReconnect == Init /\ [][NextReconnect]_vars

\* a first session, a reconnect and a second session, with the waypoint
\* executor of each
SpecExecutors == Init /\ [][NextExecutors]_vars

\* the same, where every goroutine that can take a step eventually takes
\* one; the arrival of waypoints and signals is not forced
SpecExecFair ==
    /\ SpecExec
    /\ WF_vars(PushWayPointNew)
    /\ WF_vars(PullWayPointNextRead)
    /\ WF_vars(PullWayPointNextWrite)
    /\ WF_vars(StartMoveToExecutorWait)
    /\ WF_vars(StartMoveToExecutorCancel)
    /\ WF_vars(InnerSend)
    /\ WF_vars(InnerSelect /\ nCancels' = nCancels)

----------------------------------------------------------------------------
(* Properties *)

\* the payload of an outbound frame: the bytes after the 7-byte header
PayloadOf(p) == SubSeq(p, headerSize + 1, Len(p))

\* the Ack frames among the replies sent for the frame under observation
AcksOut == SelectSeq(obs.out, LAMBDA p : p[1] = 1)

\* C1: for every inbound frame with dataType 4 the dispatcher has handled,
\* exactly one Ack frame was sent, with dataType 1, targetBufferID 128 plus
\* the inbound targetBufferID and the one-byte payload [inbound sequenceNR];
\* for a frame of any other dataType no Ack frame was sent.
C1_AckForEveryDataWithAck ==
    obs.done =>
        IF obs.frame.dataType = 4
        THEN /\ Len(AcksOut) = 1
             /\ AcksOut[1][2] = 128 + obs.frame.targetBufferID
             /\ PayloadOf(AcksOut[1]) = << obs.frame.sequenceNR >>
        ELSE Len(AcksOut) = 0

\* C1, the case that diverges: a DataWithAck frame on buffer 200 has been
\* handled and its ack went out on buffer 72
C1_AckBufferWrapped ==
    /\ obs.done
    /\ obs.frame.dataType = 4
    /\ obs.frame.targetBufferID = 200
    /\ Len(AcksOut) = 1
    /\ AcksOut[1][2] = 72

\* C2: for every inbound frame on buffer 0 or 1 the dispatcher has handled,
\* exactly one frame was sent: a pong with dataType 2, the same buffer and
\* the inbound payload byte for byte; no ack was sent and the frame's
\* command was not decoded.
C2_PongEchoesPing ==
    (obs.done /\ obs.frame.targetBufferID \in {0, 1}) =>
        /\ Len(obs.out) = 1
        /\ obs.out[1][1] = 2
        /\ obs.out[1][2] = obs.frame.targetBufferID
        /\ PayloadOf(obs.out[1]) = obs.frame.dataARNetwork
        /\ obs.decoded = "none"

\* C2, its case: a ping with a two-byte payload has been answered
C2_PingAnswered ==
    /\ obs.done
    /\ obs.frame.targetBufferID = 1
    /\ Len(obs.frame.dataARNetwork) = 2
    /\ Len(obs.out) = 1

\* C3: each frame made by encodeCmd carries the sequence number of the one
\* before it plus 1, modulo 256.
C3_CmdSeqConsecutive ==
    cmdSeqs[1] # -1 => cmdSeqs[2] = (cmdSeqs[1] + 1) % 256

\* C3, its case: the sequence number has wrapped from 255 to 0
C3_CmdSeqWrapped ==
    cmdSeqs = << 255, 0 >>

\* C5: the scheduler has forwarded at most one packet since its last tick,
\* and none when the tick found nothing pending.
C5_OnePcmdPerTick ==
    /\ fwdSinceTick <= 1
    /\ (pendingAtTick = 0 => fwdSinceTick = 0)

\* C5, its case: a tick found two packets pending, one has been forwarded
\* and the other still waits
C5_ForwardedOneOfTwo ==
    /\ pendingAtTick = 2
    /\ fwdSinceTick = 1
    /\ Len(chPcmdPacketScheduler) >= 1
    /\ scPc = "wait"

\* the (buffer, dataType) the buffer policy gives a command
PolicyOf(cmd) ==
    IF cmd \in {PilotingTakeOff, PilotingLanding, PilotingmoveTo, PilotingCancelMoveTo}
    THEN << 11, 4 >>
    ELSE IF cmd = PilotingEmergency THEN << 12, 4 >> ELSE << 10, 2 >>

\* the command of a frame made by encodeCmd
CmdOf(p) ==
    << p[8], p[9], ConvLittleEndianSliceToNumeric(<< p[10], p[11] >>) >>

\* C9: every frame the input router has made with encodeCmd carries the
\* buffer and dataType of its command's class, and a Takeoff frame has
\* dataType 4, buffer 11 and size field 11.
C9_BufferPolicy ==
    irP # << >> =>
        /\ << irP[2], irP[1] >> = PolicyOf(CmdOf(irP))
        /\ CmdOf(irP) = PilotingTakeOff =>
              irP[1] = 4 /\ irP[2] = 11 /\ SubSeq(irP, 4, 7) = << 11, 0, 0, 0 >>

\* C9, the case that diverges: the Takeoff frame is on buffer 10 with
\* dataType 2 (and size field 11)
C9_TakeoffOnBuffer10 ==
    /\ irP # << >>
    /\ CmdOf(irP) = PilotingTakeOff
    /\ irP[1] = 2
    /\ irP[2] = 10
    /\ SubSeq(irP, 4, 7) = << 11, 0, 0, 0 >>

\* C10: the last two replies on one reply buffer carry consecutive sequence
\* numbers modulo 256.
C10_ReplySeqConsecutive ==
    \A b \in DOMAIN replySeqs :
        replySeqs[b][1] # -1 => replySeqs[b][2] = (replySeqs[b][1] + 1) % 256

\* C10, the case that diverges: two pongs on buffer 0 carry 1 and 3
C10_PongSeqSkips ==
    /\ 0 \in DOMAIN replySeqs
    /\ replySeqs[0] = << 1, 3 >>

\* C7: once an Execute signal has been received and k waypoints accepted,
\* k PilotingmoveTo frames are eventually sent, on every run without a
\* Cancel, a session cancel or a panic.
C7_ExecutorDrains ==
    [](nCancels = 0 /\ ~ctxDone /\ ~crashed) =>
        \A k \in 1..MaxWaypoints :
            (gen >= 1 /\ Len(accepted) >= k) ~> (Len(moveToLog) >= k)

\* C7, the case that diverges: a waypoint is accepted, the puller holds it
\* for chNewWayPointOut, an executor goroutine waits in its select, and no
\* PilotingmoveTo frame has been sent
C7_ExecutorStarved ==
    /\ gen = 1
    /\ nCancels = 0
    /\ accepted # << >>
    /\ pullPc = "send"
    /\ inPc[1] = "select"
    /\ moveToLog = << >>

C15_SingleSlotKeepLatest ==
    [][/\ Len(chPcmdPacketScheduler') <= 1
       /\ (scPc = "poll" /\ scPc' = "send") =>
              scP' = chPcmdPacketScheduler[Len(chPcmdPacketScheduler)]]_vars

\* C15, the case that diverges: the scheduler has taken the PCMD packet of
\* sequence number 1 to forward while the one of sequence number 2, produced
\* after it, waits in the channel to be sent on a later tick
C15_OlderForwardedFirst ==
    /\ scPc = "send"
    /\ Len(chPcmdPacketScheduler) >= 1
    /\ scP[3] = 1
    /\ chPcmdPacketScheduler[1][3] = 2

\* a waypoint the ingest rule admits: latitude strictly inside (-91, 91),
\* longitude strictly inside (-181, 181), no field the no-GPS value 500
ValidWaypoint(wp) ==
    /\ wp.latitude > -91 /\ wp.latitude < 91
    /\ wp.longitude > -181 /\ wp.longitude < 181
    /\ wp.latitude # 500 /\ wp.longitude # 500 /\ wp.altitude # 500

\* C16: every waypoint stored in the moveTo buffer is admitted by the ingest
\* rule.
C16_BufferHoldsValidOnly ==
    \A i \in 1..Len(waypoints) : ValidWaypoint(waypoints[i])

\* C16, the case that diverges: the waypoint (91, 181, 500) is in the buffer
C16_SentinelStored ==
    /\ waypoints # << >>
    /\ waypoints[1] = [latitude |-> 91, longitude |-> 181, altitude |-> 500]

\* the Gaz argument of a PCMD frame, as the int8 its byte stands for
GazOf(p) ==
    IF p[16] >= 128 THEN p[16] - 256 ELSE p[16]

\* the PCMD frames the input router and the scheduler hold
PcmdFramesHeld ==
    { chPcmdPacketScheduler[i] : i \in 1..Len(chPcmdPacketScheduler) }
    \cup (IF irPc = "sendPcmd" THEN {irP} ELSE {})
    \cup (IF scPc = "send" THEN {scP} ELSE {})

\* the stored Gaz and the Gaz of every PCMD frame held lie in [-100, 100]
GazInRange ==
    /\ pcmd.Gaz >= -100 /\ pcmd.Gaz <= 100
    /\ \A p \in PcmdFramesHeld : GazOf(p) >= -100 /\ GazOf(p) <= 100

\* C17: the stored Gaz and the Gaz encoded in every PCMD frame stay in
\* [-100, 100]; a step moves the stored Gaz by at most one (at 100 an
\* increment leaves 100, at -100 a decrement leaves -100, nothing wraps),
\* and the frame made in the step carries the stored value.
C17_GazClamped ==
    [][/\ GazInRange
       /\ GazInRange'
       /\ pcmd'.Gaz - pcmd.Gaz \in {-1, 0, 1}
       /\ (irPc = "select" /\ irPc' = "sendPcmd") => GazOf(irP') = pcmd'.Gaz]_vars

\* C17, its case: two PCMD frames made one after the other both carry Gaz
\* 100 (the second increment found Gaz at 100 and left it there)
C17_IncrementAtLimit ==
    /\ Len(chPcmdPacketScheduler) >= 2
    /\ GazOf(chPcmdPacketScheduler[1]) = 100
    /\ GazOf(chPcmdPacketScheduler[2]) = 100
    /\ pcmd.Gaz = 100

----------------------------------------------------------------------------
(* C20: the order of the frames on the wire *)

\* s2 is later than s1 in the circular order of a uint8 sequence counter
SeqAfter(s2, s1) == (s2 - s1) % 256 \in 1..127

\* C20: for every outbound buffer the writer writes the frames in the
\* order of their sequence numbers: whenever the writer writes a frame on a
\* buffer it has written on before, the frame's sequence number is later
\* than that of the frame it wrote before on that buffer; this includes the
\* PCMD frames, which wait in the scheduler while other commands of the same
\* buffer go to the writer directly
C20_WrittenInSequenceOrder ==
    [][\A b \in DOMAIN written :
          written'[b] # written[b] => SeqAfter(written'[b], written[b])]_vars

\* a PCMD frame has been written after a frame of the same buffer that was
\* encoded after it
C20_DirectOvertookPcmd ==
    /\ cmdBuffer \in DOMAIN written
    /\ scPc \in {"wait", "poll"}
    /\ fwdSinceTick = 1
    /\ scP # << >>
    /\ written[cmdBuffer] = scP[3]
    /\ cmdSeqs[2] # scP[3]
    /\ irPc = "select"
    /\ SeqAfter(cmdSeqs[2], scP[3])
    /\ chPcmdPacketScheduler = << >>
    /\ nInputs = 2

----------------------------------------------------------------------------
(* C18: malformed inbound packets *)

\* the bytes at the cursor are no whole frame of the received datagram:
\* fewer than 7 bytes remain, or the size field is below 7 or above the
\* bytes that remain
Malformed(pkt) ==
    LET remaining == pkt.size - pkt.framePos
        size == ConvLittleEndianSliceToNumeric(
                    << ByteAt(pkt, pkt.framePos + 3), ByteAt(pkt, pkt.framePos + 4),
                       ByteAt(pkt, pkt.framePos + 5), ByteAt(pkt, pkt.framePos + 6) >>)
    IN  remaining < headerSize \/ size < headerSize \/ size > remaining

\* C18: a malformed inbound packet has no session impact: when the
\* dispatcher decodes at a cursor where no whole frame of the datagram
\* stands, the process survives, no reply is encoded or sent and no command
\* is decoded for that frame (no sequence counter moves), and the
\* dispatcher goes on
C18_MalformedSkipped ==
    [][(hrPc = "frame" /\ Malformed(hrPacket) /\ ~crashed) =>
           /\ ~crashed'
           /\ hrPc' \in {"frame", "select", "recv"}
           /\ sequenceNR' = sequenceNR]_vars

\* the decode of a malformed packet has ended the process
C18_MalformedCrashed ==
    /\ crashed
    /\ hrPc = "frame"
    /\ Malformed(hrPacket)
    /\ hrPacket.data \in MalformedDatagrams

----------------------------------------------------------------------------
(* C19: the decode walk over a well-formed packet *)

RECURSIVE SumLen(_, _)
\* the length of the first n frames of fs together
SumLen(fs, n) ==
    IF n = 0 THEN 0 ELSE Len(fs[n]) + SumLen(fs, n - 1)

\* C19: over a well-formed packet of k >= 1 frames, decode called again and
\* again never fails and yields the packet's frames in order: the i-th
\* frame returned starts where the one before ended, its size is the length
\* of the i-th frame and its header fields and payload are those of the
\* i-th frame's bytes; end-of-packet is signalled with the k-th frame and
\* with no earlier one; the walk is over after exactly k calls, and the
\* sizes of the k frames sum to the packet length
C19_WalkYieldsFrames ==
    wkPc # "idle" =>
        /\ wkPc # "panic"
        /\ Len(wkOut) <= Len(wkFrames)
        /\ wkPc = "walk" => Len(wkOut) < Len(wkFrames)
        /\ wkPc = "done" => /\ Len(wkOut) = Len(wkFrames)
                            /\ SumLen(wkFrames, Len(wkFrames)) = wkPacket.size
        /\ \A i \in 1..Len(wkOut) :
              LET f == wkOut[i].frame
              IN  /\ wkOut[i].pos = SumLen(wkFrames, i - 1)
                  /\ f.size = Len(wkFrames[i])
                  /\ FrameBytes(f.dataType, f.targetBufferID, f.sequenceNR,
                                f.dataARNetwork) = wkFrames[i]
                  /\ f.dataARNetwork = SubSeq(wkPacket.data, wkOut[i].pos + headerSize + 1,
                                              wkOut[i].pos + f.size)
                  /\ wkOut[i].eof = (i = Len(wkFrames))

\* the walk over a packet of three frames, the last a bare header after a
\* frame whose size takes two bytes, is over
C19_ThreeFramesWalked ==
    /\ wkPc = "done"
    /\ Len(wkOut) = 3
    /\ wkOut[2].frame.size = 307
    /\ wkOut[3].frame.size = headerSize
    /\ wkOut[3].frame.dataARNetwork = << >>

----------------------------------------------------------------------------
(* C11..C14: discovery and the supervisor's loop *)

\* session s is up: the supervisor waits at its select, the session's
\* token is not cancelled, its sequencer is as newUdpPacketCreator made it
\* and all its workers have been started
SessionUp(s) ==
    /\ session = s
    /\ supPc = "wait"
    /\ ~ctxDone
    /\ sequenceNR = newUdpPacketCreator
    /\ spawned[s] = Workers

\* the reader of session s has met the read deadline and signals the
\* supervisor, which waits at its select
LivenessLost(s) ==
    /\ session = s
    /\ supPc = "wait"
    /\ rdPc = "signal"
    /\ Running

\* the operator has quit while the reader was signalling
QuitInstead == supPc = "done" /\ rdPc = "signal"

\* the read deadline is armed, the reader is in ReadFrom and no datagram
\* will come any more
TrafficStopped ==
    /\ rdPc = "read"
    /\ rdArmed
    /\ nRead = MaxPackets
    /\ Running

\* C11: once inbound traffic has stopped the reader signals the
\* supervisor; once it signals, the supervisor eventually cancels the
\* session token and, after discovery, the next session is up with a
\* freshly made sequencer and a new set of workers -- unless the operator
\* quits first or the process ends (the discovery answer is a rejection,
\* or a socket could not be bound)
C11_ReconnectAfterLivenessLoss ==
    /\ TrafficStopped ~> (rdPc = "signal" \/ ~Running)
    /\ \A s \in 1..(MaxSessions - 1) :
          /\ LivenessLost(s) ~>
                 (QuitInstead \/ (ctxDone /\ supPc = "sleep" /\ rdPc = "exit"))
          /\ LivenessLost(s) ~> (QuitInstead \/ ~Running \/ SessionUp(s + 1))

\* a second session is up after a first one whose sequencer had been used,
\* with the port its own discovery gave
C11_SecondSessionUp ==
    /\ SessionUp(2)
    /\ Len(spawned) = 2
    /\ spawned[1] = Workers
    /\ cmdBuffer \notin DOMAIN sequenceNR
    /\ discErr = "nil"
    /\ discLog.resp = "json"
    /\ portC2D = "54322"
    /\ discLog.before = "54321"
    /\ rdPc = "select"
    /\ ~rdArmed

\* C12: Discover returns success only for a response that is JSON with
\* status 0, and then d.portC2D is the response's c2d_port; for a response
\* that is no valid JSON or has a status other than 0 it returns an error
\* and leaves d.portC2D as it was
C12_DiscoverPortOnlyOnSuccess ==
    discLog.resp # "none" =>
        /\ (discLog.ret = "nil") <=> (discLog.resp = "json" /\ discLog.status = 0)
        /\ discLog.ret = "nil" => discLog.after = Itoa(discLog.c2d_port)
        /\ (discLog.resp = "invalidJSON" \/ (discLog.resp = "json" /\ discLog.status # 0)) =>
               (discLog.ret = "err" /\ discLog.after = discLog.before)

\* Discover has returned nil for a response that is no JSON and has
\* replaced the port of the session before by "0"
C12_InvalidJSONAccepted ==
    /\ discLog.resp = "invalidJSON"
    /\ discLog.ret = "nil"
    /\ discLog.before = "54321"
    /\ portC2D = "0"
    /\ supPc = "listen"

\* the workers that need the sockets
SocketWorkers ==
    { "readNetworkUDPPacketsD2C", "PcmdPacketScheduler", "writeNetworkUDPPacketsC2D",
      "handleReadPackages" }

\* C13: in one run of the loop the supervisor calls Discover at most 20
\* times and stops at the first success; when all 20 calls have failed the
\* run of the loop ends there: no socket is bound or dialled and no reader,
\* writer, scheduler or dispatcher is started for it
C13_DiscoveryFailedEndsAttempt ==
    session >= 1 =>
        /\ attempt <= DiscoverAttempts
        /\ discErr = "nil" => supPc # "discover"
        /\ (attempt = DiscoverAttempts /\ discErr = "err") =>
               /\ supPc \notin {"dial", "wait"}
               /\ spawned[session] \cap SocketWorkers = {}

\* all 20 calls of Discover have failed and the session is up all the same
C13_SessionAfterFailedDiscovery ==
    /\ session >= 1
    /\ attempt = DiscoverAttempts
    /\ discErr = "err"
    /\ supPc = "wait"
    /\ spawned[session] = Workers

\* C14: a failure to bind the inbound socket or to dial the outbound one
\* ends the run of the loop: no reader is started on a socket that was not
\* bound and no writer on one that was not dialled
C14_SocketFailureEndsAttempt ==
    session >= 1 =>
        /\ connUDPRead = "nil" => "readNetworkUDPPacketsD2C" \notin spawned[session]
        /\ connUDPWrite = "nil" => "writeNetworkUDPPacketsC2D" \notin spawned[session]

\* the reader was started on the socket that could not be bound and its
\* read has ended the process
C14_ReaderOnNilSocket ==
    /\ session >= 1
    /\ crashed
    /\ connUDPRead = "nil"
    /\ rdPc = "read"
    /\ "readNetworkUDPPacketsD2C" \in spawned[session]

----------------------------------------------------------------------------
(* C29: the size field of outbound frames *)

\* the size field of a frame: bytes 3..6, little endian
SizeField(p) == ConvLittleEndianSliceToNumeric(SubSeq(p, 4, 7))

\* C29: the size field of every frame the dispatcher sends (pong or ack)
\* is 7 plus the length of the frame's payload, that is the length of the
\* frame; for a pong this holds whatever the length of the echoed payload
C29_SizeFieldIsFrameLength ==
    \A i \in 1..Len(obs.out) :
        SizeField(obs.out[i]) = headerSize + Len(PayloadOf(obs.out[i]))

\* a pong that echoes a two-byte payload has gone out with the size field 8
C29_PongSizeFixed ==
    /\ obs.done
    /\ obs.frame.targetBufferID = 1
    /\ Len(obs.out) = 1
    /\ Len(PayloadOf(obs.out[1])) = 2
    /\ Len(obs.out[1]) = 9
    /\ SizeField(obs.out[1]) = 8

----------------------------------------------------------------------------
(* C30: read errors other than the deadline *)

\* C30: the reader hands no packet to the dispatcher for a read that
\* failed: every packet the dispatcher receives holds a datagram that a
\* successful read delivered, and its size is that datagram's byte count
C30_OnlySuccessfulReadsHandedOn ==
    [][(hrPc = "recv" /\ hrPc' = "frame") =>
           /\ hrPacket'.data \in Datagrams
           /\ hrPacket'.size = Len(hrPacket'.data)]_vars

\* the dispatcher has received the packet of a failed read (n = 0) and
\* its decode has ended the process
C30_FailedReadDecoded ==
    /\ hrPc = "frame"
    /\ hrPacket.size = 0
    /\ hrPacket.data = << >>
    /\ nRead = 1
    /\ rdArmed
    /\ crashed

----------------------------------------------------------------------------
(* C23: what the input router does with each action *)

\* C23: every action the input router receives that stands for a command
\* of its own makes it encode one command packet and hand it to the
\* outbound queue directly, and every action on a piloting axis makes it
\* encode one PCMD packet and hand it to the PCMD scheduler
C23_EveryActionEncoded ==
    [][nInputs' = nInputs + 1 =>
           /\ irAction' \in {"command", "otherCommand"} =>
                  (irPc' = "send" /\ irP' # irP)
           /\ irAction' \in {"axis", "otherAxis"} =>
                  (irPc' = "sendPcmd" /\ irP' # irP)]_vars

\* the router has received an action that stands for a command and is at
\* its select again with nothing encoded, sent or queued
C23_CommandActionDropped ==
    /\ irAction = "otherCommand"
    /\ irPc = "select"
    /\ nInputs = 1
    /\ irP = << >>
    /\ written = << >>
    /\ chPcmdPacketScheduler = << >>
    /\ cmdSeqs = << -1, -1 >>

----------------------------------------------------------------------------
(* C28: the waypoint buffer under concurrent push and pop *)

\* the waypoint the puller goroutine has popped and holds for the executor
Popped == IF pullPc = "send" THEN << pullWp >> ELSE << >>

\* C28: whenever neither the receiver nor the puller is inside its buffer
\* operation, the accepted waypoints are, in order, the ones popped
\* followed by the ones still in the buffer: none is lost and none is there
\* twice
C28_NoneLostNoneTwice ==
    (rcvPc = "recv" /\ pullPc \in {"pull", "send"}) =>
        Popped \o waypoints = accepted

\* two waypoints were accepted, the first is popped, and the buffer is
\* empty: the push of the second one is lost
C28_PushLost ==
    /\ rcvPc = "recv"
    /\ pullPc = "send"
    /\ Len(accepted) = 2
    /\ pullWp = accepted[1]
    /\ waypoints = << >>

\* the popped waypoint is still the head of the buffer
C28_HeadTwice ==
    /\ rcvPc = "recv"
    /\ pullPc = "send"
    /\ Len(accepted) = 2
    /\ pullWp = accepted[1]
    /\ waypoints = accepted

----------------------------------------------------------------------------
(* C24: the PositionDone signal *)

\* ardrone3 (1), PilotingState (4), PositionChanged (4)
PilotingStatePositionChanged == << 1, 4, 4 >>

\* the frame the dispatcher is about to decode the command of carries
\* PilotingStatePositionChanged
PositionChangedAtHand ==
    /\ hrPc = "cmd"
    /\ ~FrameDecode(hrFrame).panic
    /\ FrameDecode(hrFrame).cmd = PilotingStatePositionChanged

\* C24: when the dispatcher has decoded an inbound
\* PilotingStatePositionChanged command, its next step is the delivery of
\* the PositionDone signal to the waypoint executor (a send on
\* d.gps.chMoveToPositionDone), whatever the executor is doing
C24_PositionChangedSignalsDone ==
    [][(PositionChangedAtHand /\ hrPc' # hrPc) => hrPc' = "sendPositionDone"]_vars

\* the dispatcher has decoded a PilotingStatePositionChanged command and
\* has gone on to its next frame or packet
C24_PositionChangedIgnored ==
    /\ obs.done
    /\ obs.decoded = "known"
    /\ FrameDecode(obs.frame).cmd = PilotingStatePositionChanged
    /\ hrPc \in {"select", "recv", "frame"}
    /\ ~crashed

----------------------------------------------------------------------------
(* C27 *)

\* the frames encodeCmd has made so far, by the observer's last two
\* sequence bytes: both goroutines have made one
TwoEncoded == cmdSeqs[1] # -1 /\ cmdSeqs[2] # -1

\* C27: the sequencer is serialized per buffer: when two workers of the
\* session encode for buffer 10 concurrently no increment is lost and no
\* two frames carry the same sequence number, so the counter of buffer 10
\* has counted every command accepted and encoded, and two frames made one
\* after the other differ by one
C27_SequencerSerialized ==
    /\ TwoEncoded => cmdSeqs[2] = (cmdSeqs[1] + 1) % 256
    /\ (~crashed /\ irPc \in {"select", "send", "exit"}
          /\ \A g \in 1..MaxGen : inPc[g] \notin {"incStore", "seqRead"})
       => MapGet(sequenceNR, cmdBuffer) = (nInputs + nCancels) % 256

\* the input router and the inner goroutine have both loaded 0 and stored
\* 1: two frames with sequence number 1 wait to be sent, one increment lost
C27_SameSequenceNumber ==
    /\ irPc = "send"
    /\ \E g \in 1..MaxGen : inPc[g] = "sendCancel" /\ inP[g][3] = irP[3]
    /\ cmdSeqs = << 1, 1 >>
    /\ nInputs = 1
    /\ nCancels = 1
    /\ MapGet(sequenceNR, cmdBuffer) = 1
    /\ ~crashed

----------------------------------------------------------------------------
(* C21 *)

\* the reader, the writer and the dispatcher of the session have returned;
\* the reader and the writer close their sockets in a deferred call, so
\* their return is the closing of their sockets
InboundWorkersReturned ==
    /\ rdPc = "exit"
    /\ wrPc = "exit"
    /\ hrPc = "exit"

\* C21: after the session's context is cancelled every worker of the
\* session eventually returns (and the reader and the writer close their
\* sockets), with no further datagram arriving and wherever the worker was
\* blocked; here for the reader, the writer and the dispatcher, up to a
\* panic that ends the whole process
C21_WorkersReturnAfterCancel ==
    ctxDone ~> (InboundWorkersReturned \/ crashed)

\* the context is cancelled, the reader and the writer have returned, and
\* the dispatcher is in its receive from chReceivedUDPPacket, on which
\* nothing will ever be sent
C21_DispatcherBlockedInReceive ==
    /\ ctxDone
    /\ hrPc = "recv"
    /\ rdPc = "exit"
    /\ wrPc = "exit"
    /\ ~crashed

\* the context is cancelled and the reader is in ReadFrom with no read
\* deadline set: it returns only if a datagram arrives
C21_ReaderBlockedInRead ==
    /\ ctxDone
    /\ rdPc = "read"
    /\ ~rdArmed
    /\ ~crashed

----------------------------------------------------------------------------
(* C22 *)

\* the supervisor cannot go on: the process has ended, or the model's
\* bound on the runs of the loop is reached
SupervisorEnded ==
    \/ ~Running
    \/ supPc = "sleep" /\ session = MaxSessions

\* C22, the quit once accepted: the step that accepts a quit cancels the
\* session's context and makes Drone.start return, and from then on no
\* discovery pass is made and no goroutine is started
C22_AcceptedQuitEndsSupervisor ==
    [][/\ (quit # "accepted" /\ quit' = "accepted") => (ctxDone' /\ supPc' = "done")
       /\ quit = "accepted" => (/\ supPc' = "done"
                                /\ spawned' = spawned
                                /\ attempt' = attempt
                                /\ session' = session
                                /\ discLog' = discLog)]_vars

\* C22: a quit request issued at any point of the lifecycle is eventually
\* accepted by the supervisor (unless the process has ended first)
C22_QuitEventuallyAccepted ==
    (quit = "pending") ~> (quit = "accepted" \/ SupervisorEnded)

\* a quit issued during discovery has been received by the dialer: the
\* discovery pass has failed, the loop goes on, and the session is up with
\* the supervisor at its select and no quit to take
C22_QuitTakenByDialer ==
    /\ quit = "lost"
    /\ supPc = "wait"
    /\ ~ctxDone
    /\ Running
    /\ discErr = "nil"
    /\ spawned[session] = Workers

\* a quit has been accepted: the supervisor has returned
C22_QuitAccepted ==
    /\ quit = "accepted"
    /\ supPc = "done"
    /\ ctxDone

----------------------------------------------------------------------------
(* C33 *)

\* the buffer ids acknowledgements are sent on
AckBuffers == 128..255

\* C33: the targetBufferID byte of every Ack frame encodeAck has produced
\* lies in 128..255 and is 128 plus the buffer of the frame acknowledged,
\* whatever the inbound buffer: no wrap-around of the 8-bit sum onto a
\* reserved or data buffer
C33_AckBufferInRange ==
    \A i \in 1..Len(AcksOut) :
        /\ AcksOut[i][2] \in AckBuffers
        /\ obs.done => AcksOut[i][2] = 128 + obs.frame.targetBufferID

\* the ack of a DataWithAck frame received on buffer 200 carries buffer 72,
\* a data buffer, and the sequencer has counted it under 72
C33_AckOnDataBuffer ==
    /\ obs.done
    /\ obs.frame.dataType = 4
    /\ obs.frame.targetBufferID = 200
    /\ \E i \in 1..Len(obs.out) : obs.out[i][1] = 1 /\ obs.out[i][2] = (200 + 128) % 256
    /\ MapGet(sequenceNR, 72) = 1
    /\ 72 \notin AckBuffers

----------------------------------------------------------------------------
(* C34 *)

\* C34: the WaitGroup counter of every iteration of startMoveToExecutor
\* stays at zero or above, whatever Execute and Cancel signals arrive:
\* wg.Done is called at most once for the one wg.Add(1), and the executor
\* does not panic
C34_WaitGroupNeverNegative ==
    /\ \A g \in 1..MaxGen : wg[g] >= 0
    /\ ~crashed

\* one Execute and two Cancel signals: the inner goroutine of the first
\* iteration has sent two cancel frames and called wg.Done twice, and the
\* counter has gone to -1 ("sync: negative WaitGroup counter")
C34_SecondCancelPanics ==
    /\ gen = 1
    /\ nCancels = 2
    /\ nCancelSent = 2
    /\ wg[1] = -1
    /\ crashed

----------------------------------------------------------------------------
(* C31 *)

\* a reader goroutine that has been started and has not returned
ReaderSteps == {"select", "read", "send", "signal"}

\* C31: the current session is cancelled only by a step of its own (the
\* deadline signal of its own reader, or the operator's request): a step
\* that cancels it never is the receipt of the signal the reader of an
\* earlier session sends on d.chNetworkConnect
C31_OnlyOwnWatchdogCancels ==
    [][(~ctxDone /\ ctxDone') => prevRd' = prevRd]_vars

\* the second part of C31: at no time two readers are alive
C31_OneReaderAtATime ==
    ~(rdPc \in ReaderSteps /\ prevRd.pc \in ReaderSteps)

\* the second session has been cancelled on the signal of the first
\* session's reader: that reader's deadline had expired after the
\* operator's reconnect request, it has now returned and its deferred
\* Close has hit the nil d.connUDPRead the failed ListenPacket left, while
\* the second session's reader has not read anything yet
C31_StaleSignalCancelsSession ==
    /\ session = 2
    /\ ctxDone
    /\ supPc = "sleep"
    /\ prevRd = [pc |-> "exit", armed |-> TRUE, sock |-> "open"]
    /\ rdPc = "select"
    /\ ~rdArmed
    /\ connUDPRead = "nil"
    /\ crashed

\* two readers at once: the first session's reader is still in ReadFrom,
\* with no deadline set, and the second session's reader has been started
C31_TwoReaders ==
    /\ session = 2
    /\ prevRd.pc = "read"
    /\ ~prevRd.armed
    /\ rdPc \in ReaderSteps
    /\ Running

----------------------------------------------------------------------------
(* C32 *)

\* the sequence numbers the sequencer of the current session has given out
\* for the command buffer
IssuedNow == 1..MapGet(sequenceNR, cmdBuffer)

\* C32, for the frames sent: every frame a worker hands to the writer was
\* encoded with the sequencer of the session it is written in, so its
\* sequence number is one the current sequencer has given out; no frame
\* left in the PCMD queue by the cancelled session is sent afterwards
C32_WrittenFromCurrentSequencer ==
    [][/\ (irPc = "send" /\ irPc' = "select") => irP[3] \in IssuedNow
       /\ (scPc = "send" /\ scPc' # "send") => scP[3] \in IssuedNow]_vars

\* the second session is up, its sequencer has given out nothing, and its
\* scheduler has taken from the PCMD queue a frame with sequence number 1,
\* encoded in the first session, and offers it to the new writer
C32_OldFrameInNewSession ==
    /\ session = 2
    /\ supPc = "wait"
    /\ ~ctxDone
    /\ sequenceNR = newUdpPacketCreator
    /\ scPc = "send"
    /\ scP[3] = 1
    /\ WriterReady
    /\ written = << >>

----------------------------------------------------------------------------
(* C35 *)

\* C35: after a reconnect an Execute signal is handled by the executor of
\* the current session, the one with the current sequencer and ctx: the
\* executor of an earlier session never takes it
C35_ExecuteHandledByCurrentExecutor ==
    [][~(prevEx.pc = "waitExecute" /\ prevEx'.pc = "wgWait")]_vars

\* the first part of C35: exactly one executor waits for Execute signals
C35_OneExecutorListening ==
    ~(prevEx.pc = "waitExecute" /\ exPc = "waitExecute")

\* the second session is up and a waypoint is in the buffer; the Execute
\* signal has gone to the executor of the first session, whose inner
\* goroutine has returned on its cancelled ctx: that executor is in
\* wg.Wait() for good, the executor of the second session still waits for
\* Execute, and no moveTo frame has been sent
C35_ExecuteSwallowed ==
    /\ session = 2
    /\ supPc = "wait"
    /\ ~ctxDone
    /\ prevEx = [pc |-> "wgWait", inPc |-> "exit", wg |-> 1]
    /\ ExecutorIdle
    /\ waypoints # << >>
    /\ moveToLog = << >>
    /\ written = << >>

====
